---- MODULE Spec2Model ----
(***************************************************************************)
(* A model of GuardianJS: the audio fingerprint probe (src/sources/audio)  *)
(* with its render job, retry and timeout timers, and the anchor /         *)
(* visitor-id pipeline (src/anchor.ts, hash utilities).                    *)
(*                                                                         *)
(* Time is in milliseconds.  Samples are integers (fixed point).           *)
(***************************************************************************)
EXTENDS Integers, Sequences, FiniteSets, TLC

VARIABLES
    env,        \* what utils/browser and window report to the probe
    result,     \* what getAudioFingerprint returned: "none", "callable" or a sentinel
    job,        \* the closure state of startRenderingAudio and of its promises
    hidden,     \* document.hidden
    now,        \* Date.now()
    signals,    \* the signal bag held by the agent
    getResult,  \* what get() returned: the anchor and the visitor id
    args,       \* the arguments of calls of canonicalize or stableHash
    returned,    \* what these calls returned, one value per argument
    other       \* a second audio acquisition running next to the first: its result and job

vars == <<env, result, job, hidden, now, signals, getResult, args, returned, other>>

-----------------------------------------------------------------------------
(* Bounds of the model *)

StartTime == 1000
TickStep == 250
MaxNow == 7000
MaxRenderTries == 5
TimerIds == 2

-----------------------------------------------------------------------------
(* Program constants *)

KnownForSuspending == -1
NotSupported == -2
Timeout == -3
KnownForAntifingerprinting == -4

InnerTimeout == "timeout"
InnerSuspended == "suspended"

hashFromIndex == 4500
hashToIndex == 5000

renderTryMaxCount == 3
renderRetryDelay == 500
runningMaxAwaitTime == 500
runningSufficientTime == 5000

-----------------------------------------------------------------------------
(* Helpers *)

Min(a, b) == IF a <= b THEN a ELSE b

Max(a, b) == IF a >= b THEN a ELSE b

Abs(x) == IF x < 0 THEN -x ELSE x

-----------------------------------------------------------------------------
(* The environment the probe reads: the answers of utils/browser and the   *)
(* presence of window.OfflineAudioContext || window.webkitOfflineAudioContext *)

Envs ==
    [ isWebKit : BOOLEAN, isDesktopWebKit : BOOLEAN, isWebKit606OrNewer : BOOLEAN,
      isWebKit616OrNewer : BOOLEAN, isSafariWebKit : BOOLEAN,
      isChromium : BOOLEAN, isSamsungInternet : BOOLEAN, isChromium122OrNewer : BOOLEAN,
      hasOfflineAudioContext : BOOLEAN ]

doesBrowserSuspendAudioContext(e) ==
    e.isWebKit /\ ~e.isDesktopWebKit /\ ~e.isWebKit606OrNewer

isSafari17OrNewer(e) ==
    e.isWebKit /\ e.isWebKit616OrNewer /\ e.isSafariWebKit

doesBrowserPerformAntifingerprinting(e) ==
    e.isChromium /\ e.isSamsungInternet /\ e.isChromium122OrNewer

-----------------------------------------------------------------------------
(* Rendered buffers.  A buffer of hashToIndex samples is described by four *)
(* sample values: every sample before hashFromIndex, the sample at         *)
(* hashFromIndex, the last sample, and every sample in between.            *)

RenderedBuffers ==
    { <<0, 0, 0, 0>>, <<-4, 0, 0, 0>>, <<3, -2, 5, -1>> }

getChannelData(buf) ==
    [ i \in 0 .. (hashToIndex - 1) |->
        IF i < hashFromIndex THEN buf[1]
        ELSE IF i = hashFromIndex THEN buf[2]
        ELSE IF i = hashToIndex - 1 THEN buf[3]
        ELSE buf[4] ]

\* A variant of subarray that starts one sample early
subarrayOneEarly(data, begin) ==
    [ i \in 0 .. (hashToIndex - begin) |-> data[i + begin - 1] ]

\* TypedArray.subarray(begin): the elements from begin to the end, re-indexed from 0
subarray(data, begin) ==
    [ i \in 0 .. (hashToIndex - 1 - begin) |-> data[i + begin] ]

\* The loop of getHash: what it adds to hash for signal[from .. to - 1].  The
\* loop adds left to right; the additions are grouped here as a balanced tree
\* (integer addition is associative), which keeps the evaluation shallow.
RECURSIVE getHashLoop(_, _, _)
getHashLoop(signal, from, to) ==
    IF from >= to THEN 0
    ELSE IF to = from + 1 THEN Abs(signal[from])
    ELSE LET mid == (from + to) \div 2 IN
         getHashLoop(signal, from, mid) + getHashLoop(signal, mid, to)

getHash(signal) ==
    LET hash == 0 IN
    hash + getHashLoop(signal, 0, Cardinality(DOMAIN signal))

-----------------------------------------------------------------------------
(* Promises *)

\* onFulfilled of renderPromise.then, for each buffer the context can render
onFulfilled ==
    [ buffer \in RenderedBuffers |->
        getHash(subarray(getChannelData(buffer), hashFromIndex)) ]

PendingFingerprint == [ state |-> "pending", value |-> 0, reason |-> "" ]

\* A variant of fingerprintReaction that turns every rejection into the sentinel
fingerprintReactionSwallowing(outcome, buffer) ==
    IF outcome = "rendered"
    THEN [ state |-> "fulfilled", value |-> onFulfilled[buffer], reason |-> "" ]
    ELSE [ state |-> "fulfilled", value |-> Timeout, reason |-> "" ]

\* A variant of fingerprintReaction that reports a Suspended failure as the
\* sentinel of the always-suspending browsers
fingerprintReactionSuspendedAsKnown(outcome, buffer) ==
    IF outcome = "rendered"
    THEN [ state |-> "fulfilled", value |-> onFulfilled[buffer], reason |-> "" ]
    ELSE IF outcome = InnerTimeout
    THEN [ state |-> "fulfilled", value |-> Timeout, reason |-> "" ]
    ELSE IF outcome = InnerSuspended
    THEN [ state |-> "fulfilled", value |-> KnownForSuspending, reason |-> "" ]
    ELSE [ state |-> "rejected", value |-> 0, reason |-> outcome ]

\* renderPromise.then(onFulfilled, onRejected) of getUnstableAudioFingerprint
fingerprintReaction(outcome, buffer) ==
    IF outcome = "rendered"
    THEN [ state |-> "fulfilled",
           value |-> onFulfilled[buffer],
           reason |-> "" ]
    ELSE IF outcome = InnerTimeout \/ outcome = InnerSuspended
    THEN [ state |-> "fulfilled", value |-> Timeout, reason |-> "" ]
    ELSE [ state |-> "rejected", value |-> 0, reason |-> outcome ]

\* A variant of settle in which a later resolve or reject overrides the outcome
settleAgain(j, outcome, buffer) ==
    [ j EXCEPT !.outcome = outcome, !.buffer = buffer,
               !.fingerprint = fingerprintReaction(outcome, buffer) ]

\* resolve / reject of resultPromise: a promise settles once, later calls are
\* no-ops; the reaction registered with then() runs with the settled value
settle(j, outcome, buffer) ==
    IF j.outcome = "pending"
    THEN [ j EXCEPT !.outcome = outcome, !.buffer = buffer,
                    !.fingerprint = fingerprintReaction(outcome, buffer) ]
    ELSE j

resolve(j, buffer) == settle(j, "rendered", buffer)

reject(j, error) == settle(j, error, <<>>)

-----------------------------------------------------------------------------
(* startRenderingAudio *)

\* The closure of startRenderingAudio: its three variables, the context's state,
\* the state of resultPromise (outcome, buffer) and of fingerprintPromise, the
\* pending timers in the order they were set, the id setTimeout gives the next
\* timer (ids are kept modulo TimerIds), and (for the record) the error the
\* catch clause of tryRender caught last
NoJob ==
    [ created |-> FALSE, isFinalized |-> FALSE, renderTryCount |-> 0,
      startedRunningAt |-> 0, state |-> "suspended", outcome |-> "pending",
      buffer |-> <<>>, fingerprint |-> PendingFingerprint, timers |-> <<>>,
      nextTimerId |-> 0, caught |-> "" ]

\* setTimeout(callback, delay): a negative delay is a delay of 0
setTimeout(j, callback, delay, t) ==
    [ j EXCEPT !.timers = Append(@, [ callback |-> callback, at |-> t + Max(delay, 0),
                                      id |-> j.nextTimerId ]),
               !.nextTimerId = (@ + 1) % TimerIds ]

\* A variant of startRunningTimeout that always waits runningMaxAwaitTime
startRunningTimeoutFixedDelay(j, t) ==
    setTimeout(j, "timeout", runningMaxAwaitTime, t)

startRunningTimeout(j, t) ==
    setTimeout(j, "timeout",
               Min(runningMaxAwaitTime, j.startedRunningAt + runningSufficientTime - t), t)

\* What context.startRendering() does to the context in one call
StartRenderingEffects == { "starts", "stays", "throws" }

ThrownErrors == { "InvalidStateError", "NotSupportedError" }

contextAfterStartRendering(j, effect) ==
    IF effect = "starts" /\ j.state = "suspended" THEN "running" ELSE j.state

\* A variant of tryRender that fails a job one counted try late (> for >=)
tryRenderOneTryLate(j, effect, error, isHidden, t) ==
    IF effect = "throws"
    THEN reject([ j EXCEPT !.caught = error ], error)
    ELSE
        LET c == [ j EXCEPT !.state = contextAfterStartRendering(j, effect) ] IN
        CASE c.state = "running" ->
                LET r == [ c EXCEPT !.startedRunningAt = t ] IN
                IF r.isFinalized THEN startRunningTimeout(r, t) ELSE r
          [] c.state = "suspended" ->
                LET n == IF ~isHidden
                         THEN [ c EXCEPT !.renderTryCount = @ + 1 ]
                         ELSE c
                IN  IF n.isFinalized /\ n.renderTryCount > renderTryMaxCount
                    THEN reject(n, InnerSuspended)
                    ELSE setTimeout(n, "tryRender", renderRetryDelay, t)
          [] OTHER -> c

\* A variant of tryRender that fails a job whether or not it is finalized
tryRenderUnfinalizedFails(j, effect, error, isHidden, t) ==
    IF effect = "throws"
    THEN reject([ j EXCEPT !.caught = error ], error)
    ELSE
        LET c == [ j EXCEPT !.state = contextAfterStartRendering(j, effect) ] IN
        CASE c.state = "running" ->
                LET r == [ c EXCEPT !.startedRunningAt = t ] IN
                IF r.isFinalized THEN startRunningTimeout(r, t) ELSE r
          [] c.state = "suspended" ->
                LET n == IF ~isHidden
                         THEN [ c EXCEPT !.renderTryCount = @ + 1 ]
                         ELSE c
                IN  IF n.renderTryCount >= renderTryMaxCount
                    THEN reject(n, InnerSuspended)
                    ELSE setTimeout(n, "tryRender", renderRetryDelay, t)
          [] OTHER -> c

\* A variant of tryRender that counts a try whether or not the page is hidden
tryRenderCountingHidden(j, effect, error, isHidden, t) ==
    IF effect = "throws"
    THEN reject([ j EXCEPT !.caught = error ], error)
    ELSE
        LET c == [ j EXCEPT !.state = contextAfterStartRendering(j, effect) ] IN
        CASE c.state = "running" ->
                LET r == [ c EXCEPT !.startedRunningAt = t ] IN
                IF r.isFinalized THEN startRunningTimeout(r, t) ELSE r
          [] c.state = "suspended" ->
                LET n == [ c EXCEPT !.renderTryCount = @ + 1 ]
                IN  IF n.isFinalized /\ n.renderTryCount >= renderTryMaxCount
                    THEN reject(n, InnerSuspended)
                    ELSE setTimeout(n, "tryRender", renderRetryDelay, t)
          [] OTHER -> c

tryRender(j, effect, error, isHidden, t) ==
    IF effect = "throws"
    THEN reject([ j EXCEPT !.caught = error ], error)
    ELSE
        LET c == [ j EXCEPT !.state = contextAfterStartRendering(j, effect) ] IN
        CASE c.state = "running" ->
                LET r == [ c EXCEPT !.startedRunningAt = t ] IN
                IF r.isFinalized THEN startRunningTimeout(r, t) ELSE r
          [] c.state = "suspended" ->
                LET n == IF ~isHidden
                         THEN [ c EXCEPT !.renderTryCount = @ + 1 ]
                         ELSE c
                IN  IF n.isFinalized /\ n.renderTryCount >= renderTryMaxCount
                    THEN reject(n, InnerSuspended)
                    ELSE setTimeout(n, "tryRender", renderRetryDelay, t)
          [] OTHER -> c

\* A variant of finalize that arms no timeout for a job already running
finalizeWithoutTimeout(j, t) ==
    IF ~j.isFinalized THEN [ j EXCEPT !.isFinalized = TRUE ] ELSE j

\* A variant of finalize that starts the count of tries afresh
finalizeResettingCount(j, t) ==
    IF ~j.isFinalized
    THEN LET f == [ j EXCEPT !.isFinalized = TRUE, !.renderTryCount = 0 ] IN
         IF f.startedRunningAt > 0 THEN startRunningTimeout(f, t) ELSE f
    ELSE j

\* A variant of finalize that arms the timeout on every request
finalizeEveryRequest(j, t) ==
    LET f == [ j EXCEPT !.isFinalized = TRUE ] IN
    IF f.startedRunningAt > 0 THEN startRunningTimeout(f, t) ELSE f

finalize(j, t) ==
    IF ~j.isFinalized
    THEN LET f == [ j EXCEPT !.isFinalized = TRUE ] IN
         IF f.startedRunningAt > 0 THEN startRunningTimeout(f, t) ELSE f
    ELSE j

\* A variant of startRenderingAudio that makes no render attempt of its own
startRenderingAudioLazy(effect, error, isHidden, t) ==
    [ NoJob EXCEPT !.created = TRUE ]

startRenderingAudio(effect, error, isHidden, t) ==
    tryRender([ NoJob EXCEPT !.created = TRUE ], effect, error, isHidden, t)

-----------------------------------------------------------------------------
(* The probe *)

Sentinel(code) == [ kind |-> "sentinel", value |-> code ]

Callable == [ kind |-> "callable", value |-> 0 ]

NotCalled == [ kind |-> "none", value |-> 0 ]

\* A variant of getUnstableAudioFingerprint that checks the browser first
getUnstableAudioFingerprintBrowserFirst(e, effect, error, isHidden, t) ==
    IF doesBrowserSuspendAudioContext(e)
    THEN [ returned |-> Sentinel(KnownForSuspending), job |-> NoJob ]
    ELSE IF ~e.hasOfflineAudioContext
    THEN [ returned |-> Sentinel(NotSupported), job |-> NoJob ]
    ELSE [ returned |-> Callable,
           job |-> startRenderingAudio(effect, error, isHidden, t) ]

getUnstableAudioFingerprint(e, effect, error, isHidden, t) ==
    IF ~e.hasOfflineAudioContext
    THEN [ returned |-> Sentinel(NotSupported), job |-> NoJob ]
    ELSE IF doesBrowserSuspendAudioContext(e)
    THEN [ returned |-> Sentinel(KnownForSuspending), job |-> NoJob ]
    ELSE [ returned |-> Callable,
           job |-> startRenderingAudio(effect, error, isHidden, t) ]

getAudioFingerprint(e, effect, error, isHidden, t) ==
    IF isSafari17OrNewer(e)
    THEN [ returned |-> Sentinel(NotSupported), job |-> NoJob ]
    ELSE IF doesBrowserPerformAntifingerprinting(e)
    THEN [ returned |-> Sentinel(KnownForAntifingerprinting), job |-> NoJob ]
    ELSE getUnstableAudioFingerprint(e, effect, error, isHidden, t)

-----------------------------------------------------------------------------
(* Strings.  A JavaScript string is a TLA+ string; its characters are the   *)
(* printable ASCII characters other than the grave accent.                  *)

\* code units 32 to 95, and 97 to 126
AsciiLow == " !\"#$%&'()*+,-./0123456789:;<=>?@ABCDEFGHIJKLMNOPQRSTUVWXYZ[\\]^_"

AsciiHigh == "abcdefghijklmnopqrstuvwxyz{|}~"

fromCharCode(code) ==
    IF code < 96 THEN SubSeq(AsciiLow, code - 31, code - 31)
    ELSE SubSeq(AsciiHigh, code - 96, code - 96)

charAt(s, i) == SubSeq(s, i + 1, i + 1)

Chars ==
    {SubSeq(AsciiLow, n, n) : n \in 1 .. Len(AsciiLow)}
        \cup {SubSeq(AsciiHigh, n, n) : n \in 1 .. Len(AsciiHigh)}

charCode ==
    [c \in Chars |->
        IF \E n \in 1 .. Len(AsciiLow) : SubSeq(AsciiLow, n, n) = c
        THEN 31 + (CHOOSE n \in 1 .. Len(AsciiLow) : SubSeq(AsciiLow, n, n) = c)
        ELSE 96 + (CHOOSE n \in 1 .. Len(AsciiHigh) : SubSeq(AsciiHigh, n, n) = c)]

charCodeAt(s, i) == charCode[charAt(s, i)]

slice(s, begin, end) == SubSeq(s, begin + 1, Min(end, Len(s)))

RECURSIVE toLowerCase(_)
toLowerCase(s) ==
    IF s = "" THEN ""
    ELSE LET code == charCodeAt(s, 0)
         IN  (IF code >= 65 /\ code <= 90 THEN fromCharCode(code + 32)
              ELSE charAt(s, 0)) \o toLowerCase(SubSeq(s, 2, Len(s)))

RECURSIVE trimStart(_)
trimStart(s) ==
    IF s # "" /\ charAt(s, 0) = " " THEN trimStart(SubSeq(s, 2, Len(s))) ELSE s

RECURSIVE trimEnd(_)
trimEnd(s) ==
    IF s # "" /\ charAt(s, Len(s) - 1) = " "
    THEN trimEnd(SubSeq(s, 1, Len(s) - 1)) ELSE s

trim(s) == trimEnd(trimStart(s))

\* a < b in the order of code units, the order of the default sort
RECURSIVE lessThan(_, _)
lessThan(a, b) ==
    IF b = "" THEN FALSE
    ELSE IF a = "" THEN TRUE
    ELSE IF charCodeAt(a, 0) # charCodeAt(b, 0)
         THEN charCodeAt(a, 0) < charCodeAt(b, 0)
    ELSE lessThan(SubSeq(a, 2, Len(a)), SubSeq(b, 2, Len(b)))

RECURSIVE numberToStringNat(_)
numberToStringNat(n) ==
    IF n < 10 THEN fromCharCode(48 + n)
    ELSE numberToStringNat(n \div 10) \o fromCharCode(48 + (n % 10))

\* Number::toString of an integer
numberToString(n) ==
    IF n < 0 THEN "-" \o numberToStringNat(0 - n) ELSE numberToStringNat(n)

\* a padStart that leaves the string as it is
padStartNothing(s, targetLength, fill) == s

RECURSIVE padStart(_, _, _)
padStart(s, targetLength, fill) ==
    IF Len(s) >= targetLength THEN s ELSE padStart(fill \o s, targetLength, fill)

-----------------------------------------------------------------------------
(* JavaScript values.  Every value is a record of the same shape: a number  *)
(* is an integer in num, a boolean is 1 or 0 in num, a string is in str, an *)
(* array has its elements in items, and an object has its property names in *)
(* keys, in insertion order, and their values at the same index of items.   *)

JsValue(type, num, str, keys, items) ==
    [type |-> type, num |-> num, str |-> str, keys |-> keys, items |-> items]

Undefined == JsValue("undefined", 0, "", <<>>, <<>>)

Null == JsValue("null", 0, "", <<>>, <<>>)

JsBoolean(b) == JsValue("boolean", IF b THEN 1 ELSE 0, "", <<>>, <<>>)

JsNumber(n) == JsValue("number", n, "", <<>>, <<>>)

JsString(s) == JsValue("string", 0, s, <<>>, <<>>)

JsArray(items) == JsValue("array", 0, "", <<>>, items)

JsObject(keys, items) == JsValue("object", 0, "", keys, items)

JsFunction == JsValue("function", 0, "", <<>>, <<>>)

\* the exception a call ends with, in place of its value
Thrown(name) == JsValue("throw", 0, name, <<>>, <<>>)

typeof(v) ==
    IF v.type \in {"null", "array"} THEN "object" ELSE v.type

isArray(v) == v.type = "array"

\* ToBoolean
truthy(v) ==
    CASE v.type \in {"undefined", "null"} -> FALSE
      [] v.type \in {"boolean", "number"} -> v.num # 0
      [] v.type = "string" -> v.str # ""
      [] OTHER -> TRUE

\* a || b
or(a, b) == IF truthy(a) THEN a ELSE b

hasOwn(o, key) == \E i \in 1 .. Len(o.keys) : o.keys[i] = key

\* o.key and o?.key: undefined when o has no such property
get(o, key) ==
    IF hasOwn(o, key)
    THEN o.items[CHOOSE i \in 1 .. Len(o.keys) : o.keys[i] = key]
    ELSE Undefined

\* o.key = value
set(o, key, value) ==
    IF hasOwn(o, key)
    THEN [o EXCEPT !.items[CHOOSE i \in 1 .. Len(o.keys) : o.keys[i] = key] = value]
    ELSE [o EXCEPT !.keys = Append(@, key), !.items = Append(@, value)]

isDigits(s) == \A i \in 0 .. (Len(s) - 1) : charAt(s, i) \in {"0", "1", "2", "3", "4", "5", "6", "7", "8", "9"}

\* a canonical numeric string up to 2^32 - 2
isArrayIndex(key) ==
    /\ key # ""
    /\ isDigits(key)
    /\ key = "0" \/ charAt(key, 0) # "0"
    /\ Len(key) < 10 \/ (Len(key) = 10 /\ ~lessThan("4294967294", key))

\* numeric order of two array indices
indexLess(a, b) == Len(a) < Len(b) \/ (Len(a) = Len(b) /\ lessThan(a, b))

\* the order of a sort: numeric for array indices, code units otherwise
before(a, b, numeric) == IF numeric THEN indexLess(a, b) ELSE lessThan(a, b)

RECURSIVE insertSorted(_, _, _)
insertSorted(sorted, key, numeric) ==
    IF sorted = <<>> THEN <<key>>
    ELSE IF before(key, Head(sorted), numeric) THEN <<key>> \o sorted
    ELSE <<Head(sorted)>> \o insertSorted(Tail(sorted), key, numeric)

RECURSIVE sortStrings(_, _)
sortStrings(list, numeric) ==
    IF list = <<>> THEN <<>>
    ELSE insertSorted(sortStrings(SubSeq(list, 1, Len(list) - 1), numeric),
                      list[Len(list)], numeric)

\* the order in which an object lists its own property names: array indices
\* in ascending numeric order, then the other names in insertion order
ownKeys(o) ==
    sortStrings(SelectSeq(o.keys, isArrayIndex), TRUE)
        \o SelectSeq(o.keys, LAMBDA k : ~isArrayIndex(k))

\* the names of an object without the sort
sortedKeysAsEnumerated(o) == ownKeys(o)

\* Object.keys(o).sort()
sortedKeys(o) == sortStrings(ownKeys(o), FALSE)

\* a sort that leaves the list as it is
sortNothing(items) == items

\* Array.prototype.sort() with the default comparison, on a list of strings
sort(items) ==
    LET sorted == sortStrings([i \in 1 .. Len(items) |-> items[i].str], FALSE)
    IN  [i \in 1 .. Len(items) |-> JsString(sorted[i])]

RECURSIVE dedupe(_)
dedupe(items) ==
    IF items = <<>> THEN <<>>
    ELSE LET rest == dedupe(SubSeq(items, 1, Len(items) - 1))
             last == items[Len(items)]
         IN  IF \E i \in 1 .. Len(rest) : rest[i] = last THEN rest
             ELSE Append(rest, last)

-----------------------------------------------------------------------------
(* 32-bit integers.  A 32-bit value is the pair <<high 16 bits, low 16      *)
(* bits>>, and every intermediate result of the arithmetic stays below      *)
(* 2^31.                                                                    *)

Word(hi, lo) == <<hi, lo>>

RECURSIVE xor16(_, _, _)
xor16(a, b, bits) ==
    IF bits = 0 THEN 0
    ELSE IF a = 0 THEN b
    ELSE IF b = 0 THEN a
    ELSE ((a + b) % 2) + 2 * xor16(a \div 2, b \div 2, bits - 1)

\* a ^ b
xor(a, b) == Word(xor16(a[1], b[1], 16), xor16(a[2], b[2], 16))

\* the low 16 bits of x * y, for x, y below 2^16
mulLow16(x, y) ==
    ((x % 256) * y + (x \div 256) * (y % 256) * 256) % 65536

\* Math.imul(a, b): the low 32 bits of a * b
imul(a, b) ==
    LET a0 == a[2] % 256
        a1 == a[2] \div 256
        b0 == b[2] % 256
        b1 == b[2] \div 256
        mid == a1 * b0 + a0 * b1
        low == a0 * b0 + (mid % 256) * 256
        high == a1 * b1 + (mid \div 256) + (low \div 65536)
    IN  Word((high + mulLow16(a[1], b[2]) + mulLow16(a[2], b[1])) % 65536,
             low % 65536)

\* a >>> 16 and a >>> 13
shiftRight16(a) == Word(0, a[1])

shiftRight13(a) == Word(a[1] \div 8192, (a[1] % 8192) * 8 + a[2] \div 8192)

HexDigits == "0123456789abcdef"

RECURSIVE toString16Nat(_)
toString16Nat(n) ==
    IF n < 16 THEN SubSeq(HexDigits, n + 1, n + 1)
    ELSE toString16Nat(n \div 16) \o SubSeq(HexDigits, (n % 16) + 1, (n % 16) + 1)

\* (a >>> 0).toString(16): no leading zeros
toString16(a) ==
    IF a[1] = 0 THEN toString16Nat(a[2])
    ELSE toString16Nat(a[1]) \o padStart(toString16Nat(a[2]), 4, "0")

-----------------------------------------------------------------------------
(* stableHash on a string *)

\* The loop of one lane over the characters from..to-1, starting from h.  The
\* characters are taken in order, the range being halved only to keep the
\* evaluation shallow; the test on left[1] fixes the evaluation order.
RECURSIVE hashLoop(_, _, _, _, _)
hashLoop(json, from, to, h, multiplier) ==
    IF from >= to THEN h
    ELSE IF to = from + 1
    THEN imul(xor(h, Word(0, charCodeAt(json, from))), multiplier)
    ELSE LET mid == (from + to) \div 2
             left == hashLoop(json, from, mid, h, multiplier)
         IN  IF left[1] >= 0 THEN hashLoop(json, mid, to, left, multiplier)
             ELSE left

stableHashOfString(json) ==
    LET a1 == hashLoop(json, 0, Len(json), xor(Word(57005, 48879), Word(0, Len(json))),
                       Word(40503, 31153))
        a2 == hashLoop(json, 0, Len(json), xor(Word(16838, 52823), Word(0, Len(json))),
                       Word(24373, 25749))
        h1 == xor(imul(xor(a1, shiftRight16(a1)), Word(34283, 51819)),
                  imul(xor(a2, shiftRight13(a2)), Word(49842, 44597)))
        h2 == xor(imul(xor(a2, shiftRight16(a2)), Word(34283, 51819)),
                  imul(xor(h1, shiftRight13(h1)), Word(49842, 44597)))
        hi == padStart(toString16(h1), 8, "0")
        lo == padStart(toString16(h2), 8, "0")
    IN  hi \o lo

-----------------------------------------------------------------------------
(* canonicalize: JSON.stringify with the key-sorting replacer *)

\* a replacer that leaves the names of an object in the order of insertion
replacerInsertionOrder(val) == val

replacer(val) ==
    IF ~truthy(val) \/ typeof(val) # "object" \/ isArray(val) THEN val
    ELSE LET names == sortedKeys(val)
         IN  JsObject(names, [i \in 1 .. Len(names) |-> get(val, names[i])])

RECURSIVE QuoteJSONChars(_)
QuoteJSONChars(s) ==
    IF s = "" THEN ""
    ELSE (IF charAt(s, 0) \in {"\"", "\\"} THEN "\\" \o charAt(s, 0) ELSE charAt(s, 0))
             \o QuoteJSONChars(SubSeq(s, 2, Len(s)))

QuoteJSONString(s) == "\"" \o QuoteJSONChars(s) \o "\""

RECURSIVE join(_, _)
join(list, separator) ==
    IF list = <<>> THEN ""
    ELSE IF Len(list) = 1 THEN list[1]
    ELSE list[1] \o separator \o join(Tail(list), separator)

RECURSIVE SerializeJSONProperty(_)
RECURSIVE SerializeJSONObject(_, _)
RECURSIVE SerializeJSONArray(_)

\* the members of an object, in the order of its own property names; a
\* property whose value has no JSON text is left out
SerializeJSONObject(value, names) ==
    IF names = <<>> THEN <<>>
    ELSE LET strP == SerializeJSONProperty(get(value, Head(names)))
             rest == SerializeJSONObject(value, Tail(names))
         IN  IF strP.type = "undefined" THEN rest
             ELSE <<QuoteJSONString(Head(names)) \o ":" \o strP.str>> \o rest

\* the elements of an array; an element with no JSON text becomes null
SerializeJSONArray(items) ==
    IF items = <<>> THEN <<>>
    ELSE LET strP == SerializeJSONProperty(Head(items))
         IN  <<IF strP.type = "undefined" THEN "null" ELSE strP.str>>
                 \o SerializeJSONArray(Tail(items))

SerializeJSONProperty(held) ==
    LET value == replacer(held)
    IN  CASE value.type = "null" -> JsString("null")
          [] value.type = "boolean" ->
                JsString(IF value.num = 1 THEN "true" ELSE "false")
          [] value.type = "string" -> JsString(QuoteJSONString(value.str))
          [] value.type = "number" -> JsString(numberToString(value.num))
          [] value.type = "array" ->
                JsString("[" \o join(SerializeJSONArray(value.items), ",") \o "]")
          [] value.type = "object" ->
                JsString("{" \o join(SerializeJSONObject(value, ownKeys(value)), ",") \o "}")
          [] OTHER -> Undefined

\* a string, or undefined when the value has no JSON text
canonicalize(value) == SerializeJSONProperty(value)

-----------------------------------------------------------------------------
(* JSON.parse of a text without white space *)

Parsed(value, next) == [value |-> value, next |-> next]

RECURSIVE parseString(_, _, _)
parseString(text, pos, chars) ==
    LET c == charAt(text, pos)
    IN  IF c = "\"" THEN Parsed(chars, pos + 1)
        ELSE IF c = "\\" THEN parseString(text, pos + 2, chars \o charAt(text, pos + 1))
        ELSE parseString(text, pos + 1, chars \o c)

RECURSIVE parseDigits(_, _, _)
parseDigits(text, pos, n) ==
    IF pos < Len(text) /\ isDigits(charAt(text, pos))
    THEN parseDigits(text, pos + 1, 10 * n + (charCodeAt(text, pos) - 48))
    ELSE Parsed(n, pos)

parseNumber(text, pos) ==
    IF charAt(text, pos) = "-"
    THEN LET digits == parseDigits(text, pos + 1, 0)
         IN  Parsed(JsNumber(0 - digits.value), digits.next)
    ELSE LET digits == parseDigits(text, pos, 0)
         IN  Parsed(JsNumber(digits.value), digits.next)

RECURSIVE parseValue(_, _)
RECURSIVE parseMembers(_, _, _)
RECURSIVE parseElements(_, _, _)

parseMembers(text, pos, object) ==
    LET name == parseString(text, pos + 1, "")
        member == parseValue(text, name.next + 1)
        extended == set(object, name.value, member.value)
    IN  IF charAt(text, member.next) = ","
        THEN parseMembers(text, member.next + 1, extended)
        ELSE Parsed(extended, member.next + 1)

parseElements(text, pos, items) ==
    LET element == parseValue(text, pos)
        extended == Append(items, element.value)
    IN  IF charAt(text, element.next) = ","
        THEN parseElements(text, element.next + 1, extended)
        ELSE Parsed(JsArray(extended), element.next + 1)

parseValue(text, pos) ==
    LET c == charAt(text, pos)
    IN  CASE c = "{" ->
                IF charAt(text, pos + 1) = "}"
                THEN Parsed(JsObject(<<>>, <<>>), pos + 2)
                ELSE parseMembers(text, pos + 1, JsObject(<<>>, <<>>))
          [] c = "[" ->
                IF charAt(text, pos + 1) = "]"
                THEN Parsed(JsArray(<<>>), pos + 2)
                ELSE parseElements(text, pos + 1, <<>>)
          [] c = "\"" ->
                LET string == parseString(text, pos + 1, "")
                IN  Parsed(JsString(string.value), string.next)
          [] c = "t" -> Parsed(JsBoolean(TRUE), pos + 4)
          [] c = "f" -> Parsed(JsBoolean(FALSE), pos + 5)
          [] c = "n" -> Parsed(Null, pos + 4)
          [] OTHER -> parseNumber(text, pos)

JSONparse(text) == parseValue(text, 0).value

-----------------------------------------------------------------------------
(* The anchor and the visitor id *)

\* the element of a one-element set: it names a value that is computed once
Only(S) == CHOOSE x \in S : TRUE

normalizeString(input) ==
    IF ~truthy(input) THEN Undefined
    ELSE LET trimmed == toLowerCase(trim(input.str))
         IN  IF trimmed # "" THEN JsString(trimmed) ELSE Undefined

\* a string of 16 hexadecimal digits; the call throws when the value has no
\* JSON text, whose length it reads
stableHash(value) ==
    LET json == IF typeof(value) = "string" THEN value ELSE canonicalize(value)
    IN  IF json.type = "undefined" THEN Thrown("TypeError")
        ELSE JsString(stableHashOfString(json.str))

\* Array.isArray(list) && list.length
nonEmptyArray(list) == isArray(list) /\ Len(list.items) # 0

anchorObject(b) ==
    LET webgl == get(b, "webgl")
        vendor == normalizeString(or(get(webgl, "vendorUnmasked"), get(webgl, "vendor")))
        renderer == normalizeString(or(get(webgl, "rendererUnmasked"), get(webgl, "renderer")))
        gpu == IF truthy(or(vendor, renderer))
               THEN JsObject(<<"vendor", "renderer">>, <<vendor, renderer>>)
               ELSE Undefined
        webglExtApp == IF truthy(get(webgl, "extensions"))
                       THEN JsArray(sort(get(webgl, "extensions").items))
                       ELSE Undefined
        webgExt == get(get(b, "webgExtensions"), "extensions")
        webgParams == get(get(b, "webgExtensions"), "parameters")
        webgShaderPrec == get(get(b, "webgExtensions"), "shaderPrecisions")
        hw == IF typeof(get(b, "hardwareConcurrency")) = "number"
              THEN get(b, "hardwareConcurrency") ELSE Undefined
        mem == IF typeof(get(b, "deviceMemory")) = "number"
               THEN get(b, "deviceMemory") ELSE Undefined
        audio == IF typeof(get(b, "audioFingerprint")) = "number"
                 THEN get(b, "audioFingerprint") ELSE Undefined
        math == IF truthy(get(b, "mathFingerprint"))
                THEN get(b, "mathFingerprint") ELSE Undefined
        webgpu == IF truthy(get(b, "webgpu"))
                  THEN JsObject(<<"supported", "isFallbackAdapter">>,
                                <<JsBoolean(truthy(get(get(b, "webgpu"), "supported"))),
                                  JsBoolean(truthy(get(get(b, "webgpu"), "isFallbackAdapter")))>>)
                  ELSE Undefined
        eme == IF typeof(get(get(b, "eme"), "widevineSupported")) = "boolean"
               THEN (IF truthy(get(get(b, "eme"), "widevineSupported"))
                     THEN JsNumber(1) ELSE JsNumber(0))
               ELSE Undefined
        pt == IF truthy(get(b, "performanceTiming"))
              THEN stableHash(get(b, "performanceTiming")) ELSE Undefined
    IN  JsObject(
            <<"gpu", "webgl", "hw", "mem", "audio", "math", "webgpu", "eme", "pt">>,
            <<gpu,
              JsObject(<<"ext", "xExt", "params", "shader">>,
                       <<IF truthy(webglExtApp) THEN stableHash(webglExtApp) ELSE Undefined,
                         IF nonEmptyArray(webgExt)
                         THEN stableHash(JsArray(sort(dedupe(webgExt.items))))
                         ELSE Undefined,
                         IF nonEmptyArray(webgParams)
                         THEN stableHash(JsArray(sort(webgParams.items)))
                         ELSE Undefined,
                         IF nonEmptyArray(webgShaderPrec)
                         THEN stableHash(JsArray(sort(webgShaderPrec.items)))
                         ELSE Undefined>>),
              hw, mem, audio, math, webgpu, eme, pt>>)

\* a computeAnchor that keeps the user agent in the anchor
computeAnchorWithUserAgent(b) ==
    Only({ JSONparse(text.str) :
             text \in {canonicalize(set(anchorObject(b), "ua", get(b, "userAgent")))} })

\* the value computeAnchor returns, or the exception it ends with
computeAnchor(b) ==
    Only({ IF get(anchor, "pt").type = "throw" THEN get(anchor, "pt")
           ELSE Only({JSONparse(text.str) : text \in {canonicalize(anchor)}}) :
             anchor \in {anchorObject(b)} })

\* the bag after the call: the parameter and shader precision lists are
\* sorted in place
sortedInPlace(b) ==
    LET payload == get(b, "webgExtensions")
        webgParams == get(payload, "parameters")
        webgShaderPrec == get(payload, "shaderPrecisions")
        withParams == IF nonEmptyArray(webgParams)
                      THEN set(payload, "parameters", JsArray(sort(webgParams.items)))
                      ELSE payload
        withShader == IF nonEmptyArray(webgShaderPrec)
                      THEN set(withParams, "shaderPrecisions",
                               JsArray(sort(webgShaderPrec.items)))
                      ELSE withParams
    IN  IF truthy(payload) THEN set(b, "webgExtensions", withShader) ELSE b

computeVisitorId(b) ==
    Only({ IF anchor.type = "throw" THEN [anchor |-> anchor, visitorId |-> ""]
           ELSE Only({ [anchor |-> anchor, visitorId |-> slice(anchorHash.str, 0, 22)] :
                         anchorHash \in {stableHash(canonicalize(anchor))} }) :
             anchor \in {computeAnchor(b)} })

-----------------------------------------------------------------------------
(* Timers and the clock *)

\* A timer's callback may run once its delay has passed.  At MaxNow the clock
\* is no longer tracked: time beyond it lets every pending timer run.
Due(timer) == now >= timer.at \/ now >= MaxNow

removeTimer(j, i) ==
    [ j EXCEPT !.timers = SubSeq(@, 1, i - 1) \o SubSeq(@, i + 1, Len(@)) ]

\* One call of context.startRendering(): its effect and, if it throws, the error
Attempts ==
    { <<"starts", "">>, <<"stays", "">> } \cup { <<"throws", e>> : e \in ThrownErrors }

-----------------------------------------------------------------------------
(* Actions *)

\* The environments the render job is followed in: a Chromium desktop browser
\* (a job is created), and one environment for each sentinel
BrowserProfiles ==
    LET none == [ isWebKit |-> FALSE, isDesktopWebKit |-> FALSE,
                  isWebKit606OrNewer |-> FALSE, isWebKit616OrNewer |-> FALSE,
                  isSafariWebKit |-> FALSE, isChromium |-> FALSE,
                  isSamsungInternet |-> FALSE, isChromium122OrNewer |-> FALSE,
                  hasOfflineAudioContext |-> TRUE ]
    IN  { [ none EXCEPT !.isChromium = TRUE, !.isChromium122OrNewer = TRUE ],
          [ none EXCEPT !.isChromium = TRUE, !.isChromium122OrNewer = TRUE,
                        !.isSamsungInternet = TRUE ],
          [ none EXCEPT !.isWebKit = TRUE, !.isDesktopWebKit = TRUE,
                        !.isWebKit606OrNewer = TRUE, !.isWebKit616OrNewer = TRUE,
                        !.isSafariWebKit = TRUE ],
          [ none EXCEPT !.isWebKit = TRUE ],
          [ none EXCEPT !.hasOfflineAudioContext = FALSE ] }

\* Signal bags: each optional field is absent or present, with values that
\* reach each branch of computeAnchor
HardwareConcurrencies == {Undefined, JsNumber(4)}

DeviceMemories == {Undefined, JsNumber(8)}

WebGls ==
    { Undefined,
      JsObject(<<"version", "vendor", "renderer", "vendorUnmasked",
                 "rendererUnmasked", "shadingLanguageVersion", "extensions">>,
               <<JsString("WebGL 1.0"), JsString("WebKit"), JsString("WebKit WebGL"),
                 JsString(" Apple "), JsString("Apple M1"), JsString("GLSL ES 1.0"),
                 JsArray(<<JsString("b"), JsString("a")>>)>>),
      JsObject(<<"version", "vendor", "renderer", "vendorUnmasked",
                 "rendererUnmasked", "shadingLanguageVersion", "extensions">>,
               <<JsString(""), JsString("  "), JsString(""), JsString(""),
                 JsString(""), JsString(""), Undefined>>) }

WebgExtensions ==
    { Undefined,
      JsObject(<<"contextAttributes", "parameters", "shaderPrecisions",
                 "extensions", "extensionParameters", "unsupportedExtensions">>,
               <<JsArray(<<>>), JsArray(<<JsString("p2"), JsString("p1")>>),
                 JsArray(<<>>), JsArray(<<JsString("b"), JsString("a"), JsString("b")>>),
                 JsArray(<<>>), JsArray(<<>>)>>) }

AudioFingerprints == {Undefined, JsNumber(505), JsNumber(NotSupported), JsFunction}

MathFingerprints ==
    {Undefined, JsObject(<<"sin", "acos">>, <<JsNumber(1), JsNumber(2)>>)}

WebGpus == {Undefined, JsObject(<<"supported">>, <<JsBoolean(FALSE)>>)}

Emes == {Undefined, JsObject(<<"widevineSupported">>, <<JsBoolean(TRUE)>>)}

PerformanceTimings ==
    {Undefined, JsObject(<<"precision", "baseline">>, <<JsNumber(1), JsNumber(0)>>)}

SignalBags ==
    { JsObject(<<"userAgent", "hardwareConcurrency", "deviceMemory", "webgl",
                 "webgExtensions", "audioFingerprint", "mathFingerprint",
                 "webgpu", "eme", "performanceTiming">>,
               <<JsString("Mozilla/5.0"), hw, mem, webgl, webgExtensions,
                 audioFingerprint, mathFingerprint, webgpu, eme, performanceTiming>>) :
        hw \in HardwareConcurrencies, mem \in DeviceMemories, webgl \in WebGls,
        webgExtensions \in WebgExtensions, audioFingerprint \in AudioFingerprints,
        mathFingerprint \in MathFingerprints, webgpu \in WebGpus, eme \in Emes,
        performanceTiming \in PerformanceTimings }

\* no bag collected, and get() not called
NoSignals == JsObject(<<>>, <<>>)

NoResult == [called |-> FALSE, anchor |-> Undefined, visitorId |-> ""]

\* Values given to canonicalize and stableHash: strings (the empty one, one
\* with characters to escape, two whose digest has a lane with leading
\* zeros), numbers, booleans, null, arrays and objects, nested, with names
\* that are decimal integers and properties that are undefined or functions
HashValues ==
    { JsString(""), JsString("a"), JsString("say \"hi\" \\ there"),
      JsString("{\"hw\":3,\"webgl\":{}}"), JsString("{\"hw\":150,\"webgl\":{}}"),
      JsNumber(0), JsNumber(-12), JsBoolean(TRUE), JsBoolean(FALSE), Null,
      JsArray(<<>>),
      JsArray(<<JsString("b"), JsString("a"), JsString("b")>>),
      JsArray(<<JsObject(<<"b", "a">>, <<JsNumber(1), JsNumber(2)>>), Null,
                JsArray(<<JsNumber(2), JsNumber(1)>>)>>),
      JsObject(<<>>, <<>>),
      JsObject(<<"b", "a">>,
               <<JsNumber(1),
                 JsObject(<<"d", "c">>,
                          <<JsArray(<<JsObject(<<"y", "x">>, <<JsNumber(1), JsNumber(2)>>)>>),
                            JsString("s")>>)>>),
      JsObject(<<"10", "9", "a">>, <<JsBoolean(TRUE), Null, JsNumber(1)>>),
      JsObject(<<"b", "", "B", "a1">>,
               <<Undefined, JsNumber(1), JsFunction, JsArray(<<Undefined>>)>>) }

\* the orders in which n property names can be inserted
Orders(n) == { p \in [1 .. n -> 1 .. n] : \A i, j \in 1 .. n : p[i] = p[j] => i = j }

\* the values that differ from v only in the insertion order of property
\* names, at any depth
RECURSIVE Reorderings(_)
Reorderings(v) ==
    LET n == Len(v.items)
        children == { c \in [1 .. n -> UNION { Reorderings(v.items[i]) : i \in 1 .. n }] :
                        \A i \in 1 .. n : c[i] \in Reorderings(v.items[i]) }
    IN  IF v.type = "array" THEN { JsArray(c) : c \in children }
        ELSE IF v.type = "object"
        THEN { JsObject([i \in 1 .. n |-> v.keys[p[i]]], [i \in 1 .. n |-> c[p[i]]]) :
                 p \in Orders(n), c \in children }
        ELSE { v }

\* pairs of a value and one of its reorderings
HashArgs == UNION { { <<v, w>> : w \in Reorderings(v) } : v \in HashValues }

NoArgs == << >>

NoReturn == [of |-> "none", values |-> << >>]

\* The bags given to computeVisitorId two at a time
PairBags ==
    { b \in SignalBags :
        /\ get(b, "hardwareConcurrency") = JsNumber(4)
        /\ get(b, "deviceMemory") = Undefined
        /\ get(b, "mathFingerprint") # Undefined
        /\ get(b, "performanceTiming") # Undefined
        /\ get(b, "audioFingerprint") \in {Undefined, JsNumber(505)} }

\* values of the fields the anchor leaves out: user agent, platform, device
\* pixel ratio, viewport
VolatileFields ==
    { <<JsString("Mozilla/5.0 (iPhone)"), JsString("iPhone"), JsNumber(3),
        JsObject(<<"width", "height">>, <<JsNumber(390), JsNumber(844)>>)>>,
      <<JsString(""), Undefined, JsNumber(1), Undefined>> }

VolatileNames == <<"userAgent", "platform", "devicePixelRatio", "viewport">>

withVolatile(b, f) ==
    set(set(set(set(b, VolatileNames[1], f[1]), VolatileNames[2], f[2]),
            VolatileNames[3], f[3]), VolatileNames[4], f[4])

\* the same value with the names of every object inserted in reverse order
RECURSIVE reversed(_)
reversed(v) ==
    LET n == Len(v.items)
    IN  IF v.type = "array" THEN JsArray([i \in 1 .. n |-> reversed(v.items[i])])
        ELSE IF v.type = "object"
        THEN JsObject([i \in 1 .. n |-> v.keys[n + 1 - i]],
                      [i \in 1 .. n |-> reversed(v.items[n + 1 - i])])
        ELSE v

\* the property is there with a value
present(o, k) == typeof(get(o, k)) # "undefined"

\* a bag with nothing but the user agent
BareBag == JsObject(<<"userAgent">>, <<JsString("Mozilla/5.0")>>)

\* the fields the anchor is built from, each with a value that is false,
\* zero or empty
FalsyFields ==
    { <<<<"hardwareConcurrency">>, JsNumber(0)>>,
      <<<<"deviceMemory">>, JsNumber(0)>>,
      <<<<"webgl", "vendor">>, JsString("")>>,
      <<<<"webgl", "vendorUnmasked">>, JsString("")>>,
      <<<<"webgl", "renderer">>, JsString("")>>,
      <<<<"webgl", "rendererUnmasked">>, JsString("")>>,
      <<<<"webgl", "extensions">>, JsArray(<<>>)>>,
      <<<<"webgExtensions", "extensions">>, JsArray(<<>>)>>,
      <<<<"webgExtensions", "parameters">>, JsArray(<<>>)>>,
      <<<<"webgExtensions", "shaderPrecisions">>, JsArray(<<>>)>>,
      <<<<"mathFingerprint">>, JsObject(<<>>, <<>>)>>,
      <<<<"webgpu", "supported">>, JsBoolean(FALSE)>>,
      <<<<"webgpu", "isFallbackAdapter">>, JsBoolean(FALSE)>>,
      <<<<"eme", "widevineSupported">>, JsBoolean(FALSE)>> }

\* the bag with the field at the path set to the value; a field of a signal
\* that the bag lacks is set in a signal that has no other field
setPath(b, path, value) ==
    IF Len(path) = 1 THEN set(b, path[1], value)
    ELSE set(b, path[1],
             set(IF present(b, path[1]) THEN get(b, path[1]) ELSE JsObject(<<>>, <<>>),
                 path[2], value))

\* a bag in which the field is absent and the bag in which it is falsy
AbsentFalsyPairs ==
    { <<setPath(BareBag, f[1], Undefined), setPath(BareBag, f[1], f[2])>> : f \in FalsyFields }

\* the four lists the WebGL digests are made of
ListPaths ==
    { <<"webgl", "extensions">>, <<"webgExtensions", "extensions">>,
      <<"webgExtensions", "parameters">>, <<"webgExtensions", "shaderPrecisions">> }

ListItems == <<JsString("b"), JsString("a9"), JsString("a10")>>

\* a bag with the four lists
ListBag ==
    setPath(setPath(setPath(setPath(BareBag,
        <<"webgl", "extensions">>, JsArray(ListItems)),
        <<"webgExtensions", "extensions">>, JsArray(ListItems)),
        <<"webgExtensions", "parameters">>, JsArray(ListItems)),
        <<"webgExtensions", "shaderPrecisions">>, JsArray(ListItems))

\* the bag and the bag with one list in another order, or with an element
\* of the raw extension list repeated
ListPairs ==
    { <<ListBag, setPath(ListBag, path, JsArray([i \in 1 .. Len(ListItems) |-> ListItems[p[i]]]))>> :
        path \in ListPaths, p \in Orders(Len(ListItems)) }
        \cup { <<ListBag, setPath(ListBag, <<"webgExtensions", "extensions">>,
                                  JsArray(<<ListItems[3]>> \o ListItems))>> }

\* what getParameter gives for the unmasked and for the masked strings
UnmaskedStrings == {Undefined, JsString(""), JsString("  "), JsString(" Apple M1 ")}

MaskedStrings == {Undefined, JsString("  "), JsString("WebKit")}

\* bags whose webgl record has the four vendor and renderer strings
GpuBags ==
    { setPath(BareBag, <<"webgl">>,
              JsObject(<<"vendorUnmasked", "vendor", "rendererUnmasked", "renderer">>,
                       <<vu, v, ru, r>>)) :
        vu \in UnmaskedStrings, v \in MaskedStrings,
        ru \in UnmaskedStrings, r \in MaskedStrings }

\* pairs of bags: one with other volatile fields, an equal one built in
\* another order, one that differs in a single signal, one in which a field
\* is falsy instead of absent, one with a list in another order, one with
\* vendor and renderer strings
PairArgs ==
    { <<b, withVolatile(b, f)>> : b \in PairBags, f \in VolatileFields }
        \cup { <<b, reversed(b)>> : b \in PairBags }
        \cup { p \in PairBags \X PairBags :
                 Cardinality({ i \in 1 .. Len(p[1].items) : p[1].items[i] # p[2].items[i] }) = 1 }
        \cup AbsentFalsyPairs
        \cup ListPairs
        \cup { <<b, b>> : b \in GpuBags }

\* What the signal sources find in the browser
STATUS_NO_GL_CONTEXT == -1

STATUS_GET_PARAMETER_NOT_A_FUNCTION == -2

\* getWebGlBasics: a status when there is no context, else the payload
WebGlBasicsResults ==
    { JsNumber(STATUS_NO_GL_CONTEXT), JsNumber(STATUS_GET_PARAMETER_NOT_A_FUNCTION),
      JsObject(<<"version", "vendor", "vendorUnmasked", "renderer",
                 "rendererUnmasked", "shadingLanguageVersion">>,
               <<JsString("WebGL 1.0"), JsString("WebKit"), Undefined,
                 JsString("WebKit WebGL"), JsString("Apple M1"), JsString("")>>) }

\* getWebGlExtensions: a status, or the payload, whose extension list is null
\* when getSupportedExtensions() gives none
WebGlExtensionsResults ==
    { JsNumber(STATUS_NO_GL_CONTEXT), JsNumber(STATUS_GET_PARAMETER_NOT_A_FUNCTION) }
        \cup (WebgExtensions \ {Undefined})
        \cup { set(x, "extensions", Null) : x \in WebgExtensions \ {Undefined} }

GpuCases == { "noNavigator", "noGpu", "requestFails", "noAdapter", "adapter" }

\* a getWebGpuInfo without its try/catch
getWebGpuInfoUncaught(gpu) ==
    IF gpu = "noNavigator" THEN Thrown("ReferenceError")
    ELSE IF gpu = "requestFails" THEN Thrown("OperationError")
    ELSE IF gpu = "noGpu" THEN JsObject(<<"supported">>, <<JsBoolean(FALSE)>>)
    ELSE IF gpu = "noAdapter"
    THEN JsObject(<<"supported", "isFallbackAdapter">>, <<JsBoolean(TRUE), JsBoolean(TRUE)>>)
    ELSE JsObject(<<"supported", "isFallbackAdapter", "vendor", "architecture", "device">>,
                  <<JsBoolean(TRUE), JsBoolean(FALSE), JsString("intel"), Undefined, Undefined>>)

getWebGpuInfo(gpu) ==
    IF gpu \in {"noNavigator", "noGpu", "requestFails"}
    THEN JsObject(<<"supported">>, <<JsBoolean(FALSE)>>)
    ELSE IF gpu = "noAdapter"
    THEN JsObject(<<"supported", "isFallbackAdapter">>, <<JsBoolean(TRUE), JsBoolean(TRUE)>>)
    ELSE JsObject(<<"supported", "isFallbackAdapter", "vendor", "architecture", "device">>,
                  <<JsBoolean(TRUE), JsBoolean(FALSE), JsString("intel"), Undefined, Undefined>>)

EmeCases == { "noNavigator", "policyDenies", "notSecure", "noRequest", "rejects", "resolves" }

getEmeInfo(eme) ==
    IF eme = "resolves" THEN JsObject(<<"widevineSupported">>, <<JsBoolean(TRUE)>>)
    ELSE IF eme = "rejects" THEN JsObject(<<"widevineSupported">>, <<JsBoolean(FALSE)>>)
    ELSE JsObject(<<>>, <<>>)

\* the navigator: none, one without the fields read, one with them
Navigators ==
    { Undefined, JsObject(<<>>, <<>>),
      JsObject(<<"userAgent", "hardwareConcurrency", "deviceMemory">>,
               <<JsString("Mozilla/5.0"), JsNumber(4), JsNumber(8)>>) }

computeBrowserSignals(nav, basics, extensions, webgpu, eme, mathFingerprint, audioFingerprint, performanceTiming) ==
    LET listed == get(extensions, "extensions")
        webgl == IF typeof(basics) # "number"
                 THEN JsObject(<<"version", "vendor", "renderer", "vendorUnmasked",
                                 "rendererUnmasked", "shadingLanguageVersion", "extensions">>,
                               <<get(basics, "version"), get(basics, "vendor"),
                                 get(basics, "renderer"), get(basics, "vendorUnmasked"),
                                 get(basics, "rendererUnmasked"),
                                 get(basics, "shadingLanguageVersion"),
                                 IF typeof(extensions) # "number" /\ listed # Null
                                 THEN listed ELSE Undefined>>)
                 ELSE Undefined
        webgExtensions == IF typeof(extensions) # "number" THEN extensions ELSE Undefined
        number(v) == IF typeof(v) = "number" THEN v ELSE Undefined
    IN  IF webgpu.type = "throw" THEN webgpu
        ELSE IF eme.type = "throw" THEN eme
        ELSE JsObject(<<"userAgent", "hardwareConcurrency", "deviceMemory", "webgl",
                        "webgExtensions", "audioFingerprint", "mathFingerprint",
                        "webgpu", "eme", "performanceTiming">>,
                      <<or(get(nav, "userAgent"), JsString("")),
                        number(get(nav, "hardwareConcurrency")),
                        number(get(nav, "deviceMemory")),
                        webgl, webgExtensions, audioFingerprint, mathFingerprint,
                        webgpu, eme, performanceTiming>>)

\* Two acquisitions at once.  Each call of getAudioFingerprint builds its own
\* context, promise and closure (isFinalized, renderTryCount, startedRunningAt);
\* its timers run callbacks of that closure.  document.hidden and the clock
\* are the page's and are shared.
NoOther == [result |-> NotCalled, job |-> NoJob]

\* the clock is followed up to here while two acquisitions run
MaxNowTwo == 2000

\* the second acquisition is followed with these render attempts and buffers
OtherAttempts == { <<"starts", "">>, <<"stays", "">> }

OtherBuffers == { <<3, -2, 5, -1>> }

\* a variant in which a callback reads the closure of the other acquisition
stateOfOther(mine, theirs) == theirs

\* the closure state that the callbacks of an acquisition read and write
ownState(mine, theirs) == mine

\* every state one acquisition can be in after one of its steps: the probe
\* is called, a retry timer runs tryRender, the timeout timer rejects, the
\* render completes, the context starts, the callable is invoked
jobSteps(r, j, isHidden, t, attempts, buffers) ==
    (IF r = NotCalled
     THEN { [result |-> x.returned, job |-> x.job] :
              x \in { getAudioFingerprint(env, a[1], a[2], isHidden, t) : a \in attempts } }
     ELSE {})
    \cup (IF j.isFinalized \/ j.renderTryCount < MaxRenderTries
          THEN { [result |-> r, job |-> tryRender(removeTimer(j, p[1]), p[2][1], p[2][2], isHidden, t)] :
                   p \in { i \in DOMAIN j.timers :
                             j.timers[i].callback = "tryRender" /\ Due(j.timers[i]) } \X attempts }
          ELSE {})
    \cup { [result |-> r, job |-> reject(removeTimer(j, i), InnerTimeout)] :
             i \in { i \in DOMAIN j.timers :
                       j.timers[i].callback = "timeout" /\ Due(j.timers[i]) } }
    \cup (IF j.created /\ j.state = "running"
          THEN { [result |-> r, job |-> resolve([ j EXCEPT !.state = "closed" ], b)] : b \in buffers }
          ELSE {})
    \cup (IF j.created /\ j.state = "suspended"
          THEN { [result |-> r, job |-> [ j EXCEPT !.state = "running" ]] }
          ELSE {})
    \cup (IF r = Callable THEN { [result |-> r, job |-> finalize(j, t)] } ELSE {})

Init ==
    /\ env \in BrowserProfiles
    /\ result = NotCalled
    /\ job = NoJob
    /\ hidden \in BOOLEAN
    /\ now = StartTime
    /\ signals = NoSignals
    /\ getResult = NoResult
    /\ args = NoArgs
    /\ returned = NoReturn
    /\ other = NoOther

\* computeBrowserSignals calls the probe; the first render attempt runs inside it
CallProbe ==
    /\ result = NotCalled
    /\ \E a \in Attempts :
         LET r == getAudioFingerprint(env, a[1], a[2], hidden, now) IN
         /\ result' = r.returned
         /\ job' = r.job
    /\ UNCHANGED <<env, hidden, now, signals, getResult, args, returned, other>>

\* the timer set by setTimeout(tryRender, renderRetryDelay) runs; the model
\* follows a job that is not finalized for at most MaxRenderTries counted tries
RetryFires ==
    /\ job.isFinalized \/ job.renderTryCount < MaxRenderTries
    /\ \E i \in DOMAIN job.timers :
         /\ job.timers[i].callback = "tryRender"
         /\ Due(job.timers[i])
         /\ \E a \in Attempts :
              job' = tryRender(removeTimer(job, i), a[1], a[2], hidden, now)
    /\ UNCHANGED <<env, result, hidden, now, signals, getResult, args, returned, other>>

\* the timer set by startRunningTimeout runs
TimeoutFires ==
    /\ \E i \in DOMAIN job.timers :
         /\ job.timers[i].callback = "timeout"
         /\ Due(job.timers[i])
         /\ job' = reject(removeTimer(job, i), InnerTimeout)
    /\ UNCHANGED <<env, result, hidden, now, signals, getResult, args, returned, other>>

\* context.oncomplete: the render ends with a rendered buffer
RenderComplete ==
    /\ job.created
    /\ job.state = "running"
    /\ \E b \in RenderedBuffers :
         job' = resolve([ job EXCEPT !.state = "closed" ], b)
    /\ UNCHANGED <<env, result, hidden, now, signals, getResult, args, returned, other>>

\* the context starts running between two render attempts (a tab that comes
\* to the foreground, an engine that starts late)
ContextStarts ==
    /\ job.created
    /\ job.state = "suspended"
    /\ job' = [ job EXCEPT !.state = "running" ]
    /\ UNCHANGED <<env, result, hidden, now, signals, getResult, args, returned, other>>

\* the callable returned by the probe: finishRendering(), then the promise
InvokeCallable ==
    /\ result = Callable
    /\ job' = finalize(job, now)
    /\ UNCHANGED <<env, result, hidden, now, signals, getResult, args, returned, other>>

VisibilityChange ==
    /\ hidden' = ~hidden
    /\ UNCHANGED <<env, result, job, now, signals, getResult, args, returned, other>>

Tick ==
    /\ now < MaxNow
    /\ now' = Min(now + TickStep, MaxNow)
    /\ UNCHANGED <<env, result, job, hidden, signals, getResult, args, returned, other>>

Next ==
    \/ CallProbe
    \/ RetryFires
    \/ TimeoutFires
    \/ RenderComplete
    \/ ContextStarts
    \/ InvokeCallable
    \/ VisibilityChange
    \/ Tick

Spec == Init /\ [][Next]_vars

\* Timers run and time passes: the event loop runs a due timer's callback
LiveSpec ==
    Spec /\ WF_vars(Tick) /\ WF_vars(RetryFires) /\ WF_vars(TimeoutFires)

\* A variant of get() that runs the audio probe again before it computes
GetCollectingAgain ==
    /\ signals # NoSignals
    /\ \E a \in Attempts :
         \E r \in {getAudioFingerprint(env, a[1], a[2], hidden, now)} :
            /\ result' = r.returned
            /\ job' = r.job
    /\ \E r \in {computeVisitorId(signals)} :
         getResult' = [called |-> TRUE, anchor |-> r.anchor, visitorId |-> r.visitorId]
    /\ signals' = sortedInPlace(signals)
    /\ UNCHANGED <<env, hidden, now, args, returned, other>>

\* get() on an agent: it awaits the signals that load() collects, fails if
\* their collection failed, and returns computeVisitorId(signals)
Get ==
    /\ signals # NoSignals
    /\ IF signals.type = "throw"
       THEN /\ getResult' = [called |-> TRUE, anchor |-> signals, visitorId |-> ""]
            /\ signals' = signals
       ELSE /\ \E r \in {computeVisitorId(signals)} :
                 getResult' = [called |-> TRUE, anchor |-> r.anchor, visitorId |-> r.visitorId]
            /\ signals' = sortedInPlace(signals)
    /\ UNCHANGED <<env, result, job, hidden, now, args, returned, other>>

\* The visitor id alone, for every signal bag; the audio probe takes no step
InitId ==
    /\ env \in {e \in BrowserProfiles : ~e.hasOfflineAudioContext}
    /\ result = NotCalled
    /\ job = NoJob
    /\ hidden = FALSE
    /\ now = StartTime
    /\ signals \in SignalBags
    /\ getResult = NoResult
    /\ args = NoArgs
    /\ returned = NoReturn
    /\ other = NoOther

NextId == Get

SpecId == InitId /\ [][NextId]_vars

\* canonicalize is called on each argument
Canonicalize ==
    /\ args # NoArgs
    /\ returned' = [of |-> "canonicalize",
                    values |-> [i \in DOMAIN args |-> canonicalize(args[i])]]
    /\ UNCHANGED <<env, result, job, hidden, now, signals, getResult, args, other>>

\* stableHash is called on each argument
StableHash ==
    /\ args # NoArgs
    /\ returned' = [of |-> "stableHash",
                    values |-> [i \in DOMAIN args |-> stableHash(args[i])]]
    /\ UNCHANGED <<env, result, job, hidden, now, signals, getResult, args, other>>

\* The canonical encoder and the hash alone, on pairs of values
InitHash ==
    /\ env \in {e \in BrowserProfiles : ~e.hasOfflineAudioContext}
    /\ result = NotCalled
    /\ job = NoJob
    /\ hidden = FALSE
    /\ now = StartTime
    /\ signals = NoSignals
    /\ getResult = NoResult
    /\ args \in HashArgs
    /\ returned = NoReturn
    /\ other = NoOther

NextHash == Canonicalize \/ StableHash

SpecHash == InitHash /\ [][NextHash]_vars

\* computeVisitorId is called on each bag; the call sorts the parameter and
\* shader precision lists of its argument in place
ComputeVisitorIds ==
    /\ args # NoArgs
    /\ \E r \in {[i \in DOMAIN args |-> computeVisitorId(args[i])]} :
         returned' = [of |-> "computeVisitorId", values |-> r]
    /\ args' = [i \in DOMAIN args |-> sortedInPlace(args[i])]
    /\ UNCHANGED <<env, result, job, hidden, now, signals, getResult, other>>

\* computeVisitorId alone, on pairs of bags
InitPair ==
    /\ env \in {e \in BrowserProfiles : ~e.hasOfflineAudioContext}
    /\ result = NotCalled
    /\ job = NoJob
    /\ hidden = FALSE
    /\ now = StartTime
    /\ signals = NoSignals
    /\ getResult = NoResult
    /\ args \in PairArgs
    /\ returned = NoReturn
    /\ other = NoOther

NextPair == ComputeVisitorIds

SpecPair == InitPair /\ [][NextPair]_vars

\* a load() that invokes the callable it got from the audio source
LoadInvokingCallable ==
    /\ signals = NoSignals
    /\ result = NotCalled
    /\ \E a \in Attempts, nav \in Navigators, basics \in WebGlBasicsResults,
          extensions \in WebGlExtensionsResults, gpu \in GpuCases, eme \in EmeCases,
          mathFingerprint \in MathFingerprints \ {Undefined},
          performanceTiming \in PerformanceTimings :
         \E r \in {getAudioFingerprint(env, a[1], a[2], hidden, now)} :
            /\ result' = r.returned
            /\ job' = IF r.returned = Callable THEN finalize(r.job, now) ELSE r.job
            /\ signals' = computeBrowserSignals(
                              nav, basics, extensions, getWebGpuInfo(gpu), getEmeInfo(eme),
                              mathFingerprint,
                              IF r.returned = Callable THEN JsFunction
                              ELSE JsNumber(r.returned.value),
                              performanceTiming)
    /\ UNCHANGED <<env, hidden, now, getResult, args, returned, other>>

\* load(): computeBrowserSignals() runs every source once, whatever the
\* browser lacks; the audio source is the probe, which may create a job
Load ==
    /\ signals = NoSignals
    /\ result = NotCalled
    /\ \E a \in Attempts, nav \in Navigators, basics \in WebGlBasicsResults,
          extensions \in WebGlExtensionsResults, gpu \in GpuCases, eme \in EmeCases,
          mathFingerprint \in MathFingerprints \ {Undefined},
          performanceTiming \in PerformanceTimings :
         \E r \in {getAudioFingerprint(env, a[1], a[2], hidden, now)} :
            /\ result' = r.returned
            /\ job' = r.job
            /\ signals' = computeBrowserSignals(
                              nav, basics, extensions, getWebGpuInfo(gpu), getEmeInfo(eme),
                              mathFingerprint,
                              IF r.returned = Callable THEN JsFunction
                              ELSE JsNumber(r.returned.value),
                              performanceTiming)
    /\ UNCHANGED <<env, hidden, now, getResult, args, returned, other>>

\* The agent: load() and then get(), in each browser profile
InitAgent ==
    /\ env \in BrowserProfiles
    /\ result = NotCalled
    /\ job = NoJob
    /\ hidden = FALSE
    /\ now = StartTime
    /\ signals = NoSignals
    /\ getResult = NoResult
    /\ args = NoArgs
    /\ returned = NoReturn
    /\ other = NoOther

NextAgent == Load \/ Get

SpecAgent == InitAgent /\ [][NextAgent]_vars

\* load() in a browser without WebGL, WebGPU, EME, navigator fields or
\* performance timing: what the audio source returns is all that varies
LoadBareBrowser ==
    /\ Load
    /\ \A k \in {"webgl", "webgExtensions", "hardwareConcurrency", "deviceMemory",
                 "performanceTiming"} : ~present(signals', k)
    /\ get(signals', "userAgent") = JsString("")
    /\ get(signals', "webgpu") = JsObject(<<"supported">>, <<JsBoolean(FALSE)>>)
    /\ get(signals', "eme") = JsObject(<<>>, <<>>)

\* a step of the second acquisition
OtherStep ==
    /\ \E own \in {ownState(other, [result |-> result, job |-> job])} :
         other' \in jobSteps(own.result, own.job, hidden, now, OtherAttempts, OtherBuffers)
    /\ UNCHANGED <<env, result, job, hidden, now, signals, getResult, args, returned>>

TickTwo == now < MaxNowTwo /\ Tick

\* Two acquisitions in a Chromium desktop browser
InitTwo ==
    /\ env \in {e \in BrowserProfiles : e.isChromium /\ ~e.isSamsungInternet}
    /\ result = NotCalled
    /\ job = NoJob
    /\ hidden \in BOOLEAN
    /\ now = StartTime
    /\ signals = NoSignals
    /\ getResult = NoResult
    /\ args = NoArgs
    /\ returned = NoReturn
    /\ other = NoOther

NextTwo ==
    \/ CallProbe
    \/ RetryFires
    \/ TimeoutFires
    \/ RenderComplete
    \/ ContextStarts
    \/ InvokeCallable
    \/ OtherStep
    \/ VisibilityChange
    \/ TickTwo

SpecTwo == InitTwo /\ [][NextTwo]_vars

\* The probe's synchronous part alone, in every environment
InitProbe ==
    /\ env \in Envs
    /\ result = NotCalled
    /\ job = NoJob
    /\ hidden \in BOOLEAN
    /\ now = StartTime
    /\ signals = NoSignals
    /\ getResult = NoResult
    /\ args = NoArgs
    /\ returned = NoReturn
    /\ other = NoOther

NextProbe == CallProbe

SpecProbe == InitProbe /\ [][NextProbe]_vars

-----------------------------------------------------------------------------
(* Properties *)

Fulfilled(v) == [ state |-> "fulfilled", value |-> v, reason |-> "" ]

Rejected(r) == [ state |-> "rejected", value |-> 0, reason |-> r ]

TimeoutTimers(j) == { i \in DOMAIN j.timers : j.timers[i].callback = "timeout" }

RetryTimers(j) == { i \in DOMAIN j.timers : j.timers[i].callback = "tryRender" }

\* finalize was requested and the job was observed Running
Armed(j) == j.isFinalized /\ j.startedRunningAt > 0

isLowerHex(s) ==
    \A i \in 0 .. (Len(s) - 1) :
        charAt(s, i) \in {SubSeq(HexDigits, n, n) : n \in 1 .. Len(HexDigits)}

\* The agent and the render job it starts: load(), get() at any moment, and
\* the job's timers and context, which no call of the library touches again
NextFlow ==
    \/ LoadBareBrowser
    \/ Get
    \/ RetryFires
    \/ RenderComplete
    \/ ContextStarts
    \/ VisibilityChange
    \/ TickTwo

SpecFlow == InitAgent /\ [][NextFlow]_vars

\* C1: every visitor id that get() returns is exactly 22 characters long,
\* consists of lowercase hexadecimal digits only, and is the first 22
\* characters of stableHash(canonicalize(anchor)).
C1_VisitorIdIs22HexChars ==
    getResult.called =>
        /\ Len(getResult.visitorId) = 22
        /\ isLowerHex(getResult.visitorId)
        /\ getResult.visitorId =
               slice(stableHash(canonicalize(getResult.anchor)).str, 0, 22)

\* C2: a render job settles at most once.  Once the outcome of resultPromise is
\* fixed, no step (a completion callback, a timeout, a retry, another call of
\* the callable) changes the outcome, the buffer or the callable's promise.
C2_SettlesAtMostOnce ==
    [][ job.outcome # "pending" =>
            /\ job'.outcome = job.outcome
            /\ job'.buffer = job.buffer
            /\ job'.fingerprint = job.fingerprint ]_vars

\* C2, its case: the render completed after the job had failed with Timeout
C2_StrayCompletion ==
    job.outcome = InnerTimeout /\ job.state = "closed"

\* C3 as stated: once finalize is requested the callable's promise eventually
\* settles, whatever the context and the page visibility do.
C3_FinalizeAlwaysSettles ==
    job.isFinalized ~> (job.fingerprint.state # "pending")

\* C3, amended: if the page ends up in the foreground for good, then once
\* finalize is requested the job reaches a terminal outcome and the callable's
\* promise settles.
C3_FinalizeSettlesInForeground ==
    (<>[](~hidden)) =>
        (job.isFinalized ~>
            (job.outcome # "pending" /\ job.fingerprint.state # "pending"))

\* C3, its case: a finalized job that failed by the retry / timeout protocol
C3_FinalizedJobFailed ==
    /\ job.isFinalized
    /\ job.outcome \in { InnerTimeout, InnerSuspended }
    /\ job.fingerprint.state = "fulfilled"

\* C4: at the step where "finalized and observed Running" becomes true, one
\* timeout is armed, with delay min(500, s + 5000 - now) (at least 0); its
\* deadline is at most now + 500 and at most max(now, s + 5000).  While the job
\* is pending the timeout stays armed with a deadline at most max(now, s + 5000),
\* and when it runs on a pending job the callable's promise resolves to -3.
C4_TimeoutArmedAndElapses ==
    [][ /\ (~Armed(job) /\ Armed(job')) =>
              /\ Cardinality(TimeoutTimers(job)) = 0
              /\ Cardinality(TimeoutTimers(job')) = 1
              /\ \A i \in TimeoutTimers(job') :
                   LET s == job'.startedRunningAt
                       deadline == job'.timers[i].at
                   IN  /\ deadline = now + Max(0, Min(500, s + 5000 - now))
                       /\ deadline <= now + 500
                       /\ deadline <= Max(now, s + 5000)
        /\ (Armed(job) /\ job.outcome = "pending") =>
              \E i \in TimeoutTimers(job) :
                   job.timers[i].at <= Max(now, job.startedRunningAt + 5000)
        /\ (TimeoutFires /\ job.outcome = "pending") =>
              job'.fingerprint = Fulfilled(-3) ]_vars

\* C4, its case: a job that was Running for more than 5000 ms resolved to -3
C4_TimedOutPastBudget ==
    /\ job.outcome = InnerTimeout
    /\ job.fingerprint = Fulfilled(-3)
    /\ now > job.startedRunningAt + 5000

\* a retry of a finalized job, with the page in the foreground, that finds the
\* context Suspended
FinalizedForegroundSuspendedTry ==
    /\ RetryFires
    /\ job.isFinalized
    /\ ~hidden
    /\ job'.state = "suspended"
    /\ job'.caught = ""

\* C5: a finalized, foregrounded try that finds the context Suspended counts
\* one; if the counter has reached 3 the job fails with Suspended, no retry is
\* scheduled and the callable's promise resolves to -3; below 3 the job stays
\* pending and one retry is scheduled 500 ms later.
C5_SuspendedBudget ==
    [][ FinalizedForegroundSuspendedTry =>
            /\ job'.renderTryCount = job.renderTryCount + 1
            /\ IF job'.renderTryCount >= 3
               THEN /\ job'.outcome = InnerSuspended
                    /\ job'.fingerprint = Fulfilled(-3)
                    /\ job'.timers = << >>
               ELSE /\ job'.outcome = "pending"
                    /\ Len(job'.timers) = 1
                    /\ job'.timers[1].callback = "tryRender"
                    /\ job'.timers[1].at = now + 500 ]_vars

\* C5, its case: the third counted try failed the job
C5_FailedAtThirdTry ==
    /\ job.outcome = InnerSuspended
    /\ job.renderTryCount = 3
    /\ job.fingerprint = Fulfilled(-3)
    /\ job.timers = << >>

\* C6: before finalize is requested the protocol fails no job.  A Timeout
\* failure implies finalized and observed Running; a Suspended failure implies
\* finalized and a counter of at least 3; no timeout timer exists while the job
\* is not finalized.
C6_NoPenaltyBeforeFinalize ==
    /\ job.outcome = InnerTimeout => (job.isFinalized /\ job.startedRunningAt > 0)
    /\ job.outcome = InnerSuspended => (job.isFinalized /\ job.renderTryCount >= 3)
    /\ ~job.isFinalized => TimeoutTimers(job) = {}

\* C6, its case: more than 3 counted tries before finalize, and still pending
C6_ManyTriesUnfinalized ==
    /\ ~job.isFinalized
    /\ job.renderTryCount > 3
    /\ job.outcome = "pending"
    /\ RetryTimers(job) # {}

\* C7 as stated: without OfflineAudioContext the probe returns -2, whatever
\* the browser.
C7_NoCapabilityIsNotSupported ==
    (result # NotCalled /\ ~env.hasOfflineAudioContext) =>
        result = Sentinel(-2)

\* C7, amended: without OfflineAudioContext the probe returns a sentinel and
\* creates no job; the sentinel is -2, except in a browser taken for Samsung
\* Internet on Chromium 122+ and not for Safari 17+, where it is -4.
C7_NoCapabilitySentinel ==
    (result # NotCalled /\ ~env.hasOfflineAudioContext) =>
        /\ job = NoJob
        /\ result =
             IF /\ env.isChromium /\ env.isSamsungInternet /\ env.isChromium122OrNewer
                /\ ~(env.isWebKit /\ env.isWebKit616OrNewer /\ env.isSafariWebKit)
             THEN Sentinel(-4)
             ELSE Sentinel(-2)

\* C7, its case: a browser known for suspending, without the capability
C7_SuspendingBrowserWithoutCapability ==
    /\ result = Sentinel(-2)
    /\ ~env.hasOfflineAudioContext
    /\ env.isWebKit /\ ~env.isDesktopWebKit /\ ~env.isWebKit606OrNewer

\* C8: in a browser classified as noising audio (Samsung Internet on Chromium
\* 122+, Safari 17+) the probe returns -4 and starts no render job.  Stated
\* for the browsers that have OfflineAudioContext, where no other sentinel
\* competes with -4.
C8_AntifingerprintingSentinel ==
    ( /\ result # NotCalled
      /\ env.hasOfflineAudioContext
      /\ \/ (env.isChromium /\ env.isSamsungInternet /\ env.isChromium122OrNewer)
         \/ (env.isWebKit /\ env.isWebKit616OrNewer /\ env.isSafariWebKit) ) =>
        (result = Sentinel(-4) /\ job = NoJob)

\* C9 as stated: an error a render attempt raised is the rejection of the
\* callable's promise.
C9_CaughtErrorRejects ==
    job.caught # "" => job.fingerprint = Rejected(job.caught)

\* C9, amended: an error raised by a render attempt while the job is pending
\* becomes the rejection of the callable's promise (no sentinel); an error
\* raised after the job has settled changes nothing.
C9_CaughtErrorRejectsPendingJob ==
    [][ job'.caught # job.caught =>
            IF job.outcome = "pending"
            THEN /\ job'.outcome = job'.caught
                 /\ job'.fingerprint = Rejected(job'.caught)
            ELSE /\ job'.outcome = job.outcome
                 /\ job'.fingerprint = job.fingerprint ]_vars

\* C9, its case: a retry threw and the callable's promise rejected with it
C9_RetryThrew ==
    /\ job.caught # ""
    /\ job.fingerprint = Rejected(job.caught)
    /\ job.renderTryCount >= 1

\* C10: a completed render resolves the callable's promise to the sum of the
\* absolute values of samples 4500..4999 (the sample at 4500, the 498 samples
\* 4501..4998, the sample at 4999); the sum is not negative, so no sentinel.
C10_DigestOfWindow ==
    job.outcome = "rendered" =>
        LET b == job.buffer
            digest == Abs(b[2]) + 498 * Abs(b[4]) + Abs(b[3])
        IN  /\ job.fingerprint = Fulfilled(digest)
            /\ digest >= 0
            /\ digest \notin { -1, -2, -3, -4 }

\* C10, its case: a buffer with negative samples and samples outside the window
C10_RenderedMixedBuffer ==
    /\ job.outcome = "rendered"
    /\ job.buffer = <<3, -2, 5, -1>>
    /\ job.fingerprint = Fulfilled(505)

\* C11: the probe's outcomes are partitioned.  A sentinel returned by the
\* probe is -1, -2 or -4 and comes with no job and no timer; a created job
\* comes with the callable; the callable's promise resolves only to a digest
\* that is not negative or to -3.
C11_OutcomesPartitioned ==
    /\ result.kind = "sentinel" =>
          /\ result.value \in { -1, -2, -4 }
          /\ job = NoJob
          /\ job.timers = << >>
    /\ job.created => result = Callable
    /\ result = Callable => job.created
    /\ job.fingerprint.state = "fulfilled" =>
          /\ result = Callable
          /\ job.fingerprint.value >= 0 \/ job.fingerprint.value = -3
          /\ job.fingerprint.value \notin { -1, -2, -4 }

\* C11, its case: a created job whose callable resolved to -3 after the
\* retry budget was spent
C11_CallableResolvedToTimeout ==
    /\ result = Callable
    /\ job.created
    /\ job.outcome = InnerSuspended
    /\ job.fingerprint = Fulfilled(-3)

\* C12: the anchor has an audio field exactly when the bag's audio signal is
\* a resolved digest; a pending callable and a sentinel code both leave the
\* audio field out.
C12_AudioFieldIffDigest ==
    getResult.called =>
        LET audio == get(signals, "audioFingerprint")
            digest == /\ typeof(audio) = "number"
                      /\ audio.num \notin { KnownForSuspending, NotSupported,
                                            Timeout, KnownForAntifingerprinting }
        IN  /\ hasOwn(getResult.anchor, "audio") <=> digest
            /\ digest => get(getResult.anchor, "audio") = audio

\* C13: two values that differ only in the insertion order of property
\* names, at any depth, get the same string from canonicalize and the same
\* digest from stableHash.
C13_KeyOrderIrrelevant ==
    returned.of \in {"canonicalize", "stableHash"} =>
        returned.values[1] = returned.values[2]

\* canonicalize and stableHash have been applied to an object and to a
\* reordering of it that moves names below the top level
C13_NestedReorderingEncoded ==
    /\ returned.of = "canonicalize"
    /\ returned.values[1].type = "string"
    /\ args[1].type = "object"
    /\ args[1] # args[2]
    /\ args[1].keys = args[2].keys
    /\ returned.values[1] = returned.values[2]

\* the names of every object of a parsed text stand in the text in ascending
\* order of code units
RECURSIVE keysAscending(_)
keysAscending(parsed) ==
    /\ parsed.type = "object" =>
          \A i \in 1 .. Len(parsed.keys) - 1 : lessThan(parsed.keys[i], parsed.keys[i + 1])
    /\ \A i \in 1 .. Len(parsed.items) : keysAscending(parsed.items[i])

\* the parsed text holds the input's values: arrays element by element in
\* the input's order (null where JSON has no encoding), objects name by name
RECURSIVE sameContent(_, _)
sameContent(input, parsed) ==
    IF typeof(input) \in {"undefined", "function"} THEN parsed = Null
    ELSE IF isArray(input)
    THEN /\ isArray(parsed)
         /\ Len(parsed.items) = Len(input.items)
         /\ \A i \in 1 .. Len(input.items) : sameContent(input.items[i], parsed.items[i])
    ELSE IF input.type = "object"
    THEN /\ parsed.type = "object"
         /\ { k \in DOMAIN parsed.keys : TRUE } = 1 .. Len(parsed.keys)
         /\ { parsed.keys[i] : i \in 1 .. Len(parsed.keys) }
              = { input.keys[i] : i \in { j \in 1 .. Len(input.keys) :
                                            typeof(input.items[j]) \notin {"undefined", "function"} } }
         /\ \A i \in 1 .. Len(parsed.keys) :
               sameContent(get(input, parsed.keys[i]), parsed.items[i])
    ELSE parsed = input

\* C14: in the string canonicalize produces, the names of every object at
\* every depth appear in lexicographic order, names that are decimal
\* integers included, and the elements of every array appear in the order
\* of the input.
C14_KeysLexicographicArraysInOrder ==
    returned.of = "canonicalize" =>
        \A i \in DOMAIN args :
            LET parsed == JSONparse(returned.values[i].str)
            IN  /\ sameContent(args[i], parsed)
                /\ keysAscending(parsed)

\* the arrays keep their order and every object's content is kept, whatever
\* the order of the names
C14_ContentAndArrayOrderKept ==
    returned.of = "canonicalize" =>
        \A i \in DOMAIN args : sameContent(args[i], JSONparse(returned.values[i].str))

\* the names that are not array indices are in lexicographic order
C14_OtherNamesAscending ==
    returned.of = "canonicalize" =>
        \A i \in DOMAIN args :
            (\A k \in { args[i].keys[j] : j \in 1 .. Len(args[i].keys) } : ~isArrayIndex(k))
                => keysAscending(JSONparse(returned.values[i].str))

\* C17: for every string, the empty one included, and every JSON-compatible
\* value, stableHash returns a string of exactly 16 characters, each a
\* lowercase hexadecimal digit: two lanes of 8 digits, padded with zeros.
C17_DigestIs16LowerHex ==
    returned.of = "stableHash" =>
        \A i \in DOMAIN args :
            /\ typeof(returned.values[i]) = "string"
            /\ Len(returned.values[i].str) = 16
            /\ isLowerHex(returned.values[i].str)

\* a digest whose first lane needed two zeros of padding has been returned
C17_PaddedLaneReturned ==
    /\ returned.of = "stableHash"
    /\ args[1] = JsString("{\"hw\":150,\"webgl\":{}}")
    /\ returned.values[1] = JsString("00d4552a7d831582")

\* the value holds a null at some depth
RECURSIVE holdsNull(_)
holdsNull(value) ==
    \/ value = Null
    \/ \E i \in 1 .. Len(value.items) : holdsNull(value.items[i])

\* a field of the anchor with the field of the bag it is taken from
AnchorFieldOrigins ==
    { <<"gpu", "webgl">>, <<"hw", "hardwareConcurrency">>, <<"mem", "deviceMemory">>,
      <<"audio", "audioFingerprint">>, <<"math", "mathFingerprint">>,
      <<"webgpu", "webgpu">>, <<"eme", "eme">>, <<"pt", "performanceTiming">> }

\* C15: every field or sub-field absent from the signal bag is absent from
\* the anchor: the anchor holds no null and no placeholder for an absent
\* input, the sub-fields of gpu and of webgpu included.
C15_AbsentInputAbsentInAnchor ==
    getResult.called =>
        LET anchor == getResult.anchor
            webgl == get(signals, "webgl")
        IN  /\ ~holdsNull(anchor)
            /\ \A f \in AnchorFieldOrigins :
                  present(anchor, f[1]) => present(signals, f[2])
            /\ present(anchor, "webgl") =>
                  present(signals, "webgl") \/ present(signals, "webgExtensions")
            /\ present(get(anchor, "gpu"), "vendor") =>
                  present(webgl, "vendorUnmasked") \/ present(webgl, "vendor")
            /\ present(get(anchor, "gpu"), "renderer") =>
                  present(webgl, "rendererUnmasked") \/ present(webgl, "renderer")
            /\ \A k \in {"supported", "isFallbackAdapter"} :
                  present(get(anchor, "webgpu"), k) => present(get(signals, "webgpu"), k)

\* the anchor holds no null, and its fields other than webgl and the
\* sub-fields of webgpu are there only when the bag has their input
C15_NoNullNoStrayScalar ==
    getResult.called =>
        /\ ~holdsNull(getResult.anchor)
        /\ \A f \in AnchorFieldOrigins :
              present(getResult.anchor, f[1]) => present(signals, f[2])

\* the names of the bag that are not among the volatile ones
stableNames(b) ==
    { b.keys[i] : i \in 1 .. Len(b.keys) } \ { VolatileNames[i] : i \in 1 .. Len(VolatileNames) }

\* C16: two bags that agree on every field except the user agent, the
\* platform, the device pixel ratio and the viewport get anchors with the
\* same canonical string and the same visitor id.
C16_VolatileFieldsIgnored ==
    (/\ returned.of = "computeVisitorId"
     /\ \A k \in stableNames(args[1]) \cup stableNames(args[2]) :
           get(args[1], k) = get(args[2], k)) =>
        /\ canonicalize(returned.values[1].anchor) = canonicalize(returned.values[2].anchor)
        /\ returned.values[1].visitorId = returned.values[2].visitorId

\* two bags with different user agent, platform, pixel ratio and viewport
\* and a full set of other signals have got their visitor ids
C16_VolatileVariantComputed ==
    /\ returned.of = "computeVisitorId"
    /\ \A i \in 1 .. Len(VolatileNames) :
          get(args[1], VolatileNames[i]) # get(args[2], VolatileNames[i])
    /\ present(args[1], "webgl") /\ present(args[1], "webgpu")
    /\ returned.values[1].visitorId = returned.values[2].visitorId
    /\ Len(returned.values[1].visitorId) > 0

\* the two values are equal: the same primitive, arrays equal element by
\* element, objects with the same names and equal values under each name
RECURSIVE deepEqual(_, _)
deepEqual(a, b) ==
    IF a.type = "array" /\ b.type = "array"
    THEN /\ Len(a.items) = Len(b.items)
         /\ \A i \in 1 .. Len(a.items) : deepEqual(a.items[i], b.items[i])
    ELSE IF a.type = "object" /\ b.type = "object"
    THEN /\ { a.keys[i] : i \in 1 .. Len(a.keys) } = { b.keys[i] : i \in 1 .. Len(b.keys) }
         /\ \A i \in 1 .. Len(a.keys) : deepEqual(a.items[i], get(b, a.keys[i]))
    ELSE a = b

C18_EqualBagsEqualResults ==
    returned.of = "computeVisitorId" =>
        /\ deepEqual(args[1], args[2]) =>
              /\ canonicalize(returned.values[1].anchor) = canonicalize(returned.values[2].anchor)
              /\ returned.values[1].visitorId = returned.values[2].visitorId
        /\ canonicalize(returned.values[1].anchor) = canonicalize(returned.values[2].anchor) =>
              returned.values[1].visitorId = returned.values[2].visitorId

C18_LaterCallSameResult ==
    returned.of = "computeVisitorId" => returned' = returned

\* C18: computeAnchor and computeVisitorId are deterministic: equal bags, and
\* the same bag passed again in a later call, get anchors with the same
\* canonical string and the same visitor id, and bags whose anchors have the
\* same canonical string get the same visitor id.
C18_Deterministic ==
    /\ []C18_EqualBagsEqualResults
    /\ [][C18_LaterCallSameResult]_vars

\* an equal bag built in another order, with a parameter list that the call
\* sorted in place, has got the same visitor id
C18_EqualBagsComputed ==
    /\ returned.of = "computeVisitorId"
    /\ args[1] # args[2]
    /\ deepEqual(args[1], args[2])
    /\ get(get(args[1], "webgExtensions"), "parameters") = JsArray(<<JsString("p1"), JsString("p2")>>)
    /\ returned.values[1] = returned.values[2]
    /\ Len(returned.values[1].visitorId) > 0

\* C19: whatever signals are unavailable (no WebGL context, WebGPU missing
\* or its adapter request failing, EME missing or rejecting, the audio probe
\* returning a sentinel or a pending callable, no performance timer, no
\* navigator fields), load() followed by get() returns a visitor id and an
\* anchor instead of failing.
C19_GetNeverFails ==
    /\ signals.type # "throw"
    /\ getResult.called =>
          /\ getResult.anchor.type = "object"
          /\ Len(getResult.visitorId) = 16
          /\ isLowerHex(getResult.visitorId)

\* get() has returned on an agent that found no WebGL context, no WebGPU, no
\* EME, no performance timer, no navigator field, and no audio
C19_NothingAvailableGot ==
    /\ getResult.called
    /\ get(signals, "userAgent") = JsString("")
    /\ \A k \in {"hardwareConcurrency", "deviceMemory", "webgl", "webgExtensions",
                 "performanceTiming"} : ~present(signals, k)
    /\ get(signals, "webgpu") = JsObject(<<"supported">>, <<JsBoolean(FALSE)>>)
    /\ get(signals, "eme") = JsObject(<<>>, <<>>)
    /\ get(signals, "audioFingerprint") = JsNumber(NotSupported)
    /\ getResult.anchor.type = "object"
    /\ Len(getResult.visitorId) = 16

\* get() has returned while the audio job that load() created is pending
C19_GotWithPendingCallable ==
    /\ getResult.called
    /\ result = Callable
    /\ job.created
    /\ get(signals, "audioFingerprint") = JsFunction
    /\ Len(getResult.visitorId) = 16

\* a step changes the first acquisition only: the second keeps its result,
\* finalized flag, retry counter, running timestamp, timers and outcome, and
\* the first moves as an acquisition running alone would
C20_FirstStepsAlone ==
    (result' # result \/ job' # job) =>
        /\ other' = other
        /\ [result |-> result', job |-> job']
              \in jobSteps(result, job, hidden, now, Attempts, RenderedBuffers)

C20_SecondStepsAlone ==
    other' # other =>
        /\ result' = result /\ job' = job
        /\ other' \in jobSteps(other.result, other.job, hidden, now, Attempts, RenderedBuffers)

\* C20: two audio acquisitions running concurrently do not interfere: a
\* step of one job (render attempt, retry, finalize, timeout, completion)
\* leaves the other's finalized flag, retry counter, running timestamp,
\* pending timers and outcome unchanged, and is a step the job would take
\* if it ran alone.
C20_NoInterference ==
    [][C20_FirstStepsAlone /\ C20_SecondStepsAlone]_vars

\* the first acquisition has returned a digest while the second, started
\* later and not finalized, is at its second counted try with a retry pending
C20_OneDoneOtherRetrying ==
    /\ job.fingerprint.state = "fulfilled"
    /\ job.fingerprint.value >= 0
    /\ job.isFinalized
    /\ other.job.created
    /\ ~other.job.isFinalized
    /\ other.job.renderTryCount = 2
    /\ other.job.outcome = "pending"
    /\ \E i \in DOMAIN other.job.timers : other.job.timers[i].callback = "tryRender"

\* the probe call that returns the callable has made the first render
\* attempt: the context was seen running, or a retry is scheduled, or the
\* attempt threw and the job is rejected; the job is not finalized yet
C21_FirstAttemptInProbeCall ==
    (result = NotCalled /\ result' = Callable) =>
        /\ job'.created
        /\ ~job'.isFinalized
        /\ \/ job'.state = "running" /\ job'.startedRunningAt = now
           \/ /\ job'.state = "suspended"
              /\ \E i \in DOMAIN job'.timers :
                    /\ job'.timers[i].callback = "tryRender"
                    /\ job'.timers[i].at = now + renderRetryDelay
           \/ job'.outcome \in ThrownErrors

\* a render that has completed stays the outcome: the callable's promise
\* holds the digest of the buffer, never the sentinel -3
C21_RenderedMeansDigest ==
    job.outcome = "rendered" =>
        /\ job.fingerprint = Fulfilled(onFulfilled[job.buffer])
        /\ job.fingerprint.value # Timeout

\* C21: the render job is started eagerly and waited for lazily: the first
\* render attempt is made during the probe call, before the callable is
\* returned or invoked, and once the render has completed, invoking the
\* callable yields the rendered digest and never -3, even though finalize
\* then arms a timeout.
C21_EagerStartLazyWait ==
    /\ []C21_RenderedMeansDigest
    /\ [][C21_FirstAttemptInProbeCall]_vars

\* the render completed, then the callable was invoked: finalize has armed
\* a timeout on the settled job, and the promise holds the digest
C21_FinalizedAfterRender ==
    /\ job.outcome = "rendered"
    /\ job.isFinalized
    /\ \E i \in DOMAIN job.timers : job.timers[i].callback = "timeout"
    /\ job.fingerprint.state = "fulfilled"
    /\ job.fingerprint.value > 0

\* once load() has collected the signals, no step runs the probe again, the
\* bag keeps its signals, and a get() after the first returns what the
\* first returned
C22_CollectedOnce ==
    signals # NoSignals =>
        /\ result' = result
        /\ job' = job
        /\ deepEqual(signals', sortedInPlace(signals))
        /\ getResult.called => getResult' = getResult

\* C22: an agent collects the browser signals exactly once, starting at
\* load(): every get() on the agent awaits that collection, runs no probe
\* again, and all of them return the same visitor id and an equal anchor.
C22_SingleCollection ==
    /\ [](getResult.called => signals # NoSignals /\ result # NotCalled)
    /\ [][C22_CollectedOnce]_vars

\* get() has returned on an agent whose probe created a job at load(), and
\* the bag a later get() will read has been sorted by the first
C22_GotAfterLoad ==
    /\ getResult.called
    /\ result = Callable
    /\ job.created
    /\ get(get(signals, "webgExtensions"), "parameters") = JsArray(<<JsString("p1"), JsString("p2")>>)
    /\ Len(getResult.visitorId) = 16

\* a render attempt, the first or a retry, that finds the context Suspended
SuspendedTry ==
    /\ CallProbe \/ RetryFires
    /\ job'.created
    /\ job'.state = "suspended"
    /\ job'.caught = ""

\* C23: a render attempt that finds the context Suspended adds exactly one
\* to the retry counter when the page is in the foreground and leaves it
\* unchanged when the page is hidden; a finalized job whose counter is below
\* 3 and whose page is hidden stays pending and schedules a retry 500 ms
\* later, attempt after attempt.
C23_HiddenTriesNotCounted ==
    [][ SuspendedTry =>
            /\ job'.renderTryCount = job.renderTryCount + (IF hidden THEN 0 ELSE 1)
            /\ (hidden /\ job'.isFinalized /\ job'.renderTryCount < 3) =>
                  /\ job'.outcome = "pending"
                  /\ job'.fingerprint = PendingFingerprint
                  /\ Len(job'.timers) = 1
                  /\ job'.timers[1].callback = "tryRender"
                  /\ job'.timers[1].at = now + 500 ]_vars

\* a finalized job whose every attempt, over more than three retries, found
\* the context Suspended on a hidden page: nothing counted, a retry pending
C23_HiddenJobStillRetrying ==
    /\ job.isFinalized
    /\ hidden
    /\ job.state = "suspended"
    /\ job.renderTryCount = 0
    /\ job.outcome = "pending"
    /\ now >= StartTime + 4 * renderRetryDelay
    /\ \E i \in RetryTimers(job) : job.timers[i].at > now

\* the number of render attempts a finalized job gets, on a page in the
\* foreground with a context that stays Suspended, until it is failed
RECURSIVE attemptsUntilFailed(_, _)
attemptsUntilFailed(j, t) ==
    LET tried == tryRender([ j EXCEPT !.timers = << >> ], "stays", "", FALSE, t)
    IN  IF tried.outcome # "pending" THEN 1
        ELSE 1 + attemptsUntilFailed(tried, t + renderRetryDelay)

\* a job that is waiting for a retry, Suspended, when finalize is requested
SuspendedBeforeFinalize ==
    /\ job.created
    /\ ~job.isFinalized
    /\ job.state = "suspended"
    /\ job.outcome = "pending"
    /\ RetryTimers(job) # {}

\* C24: Suspended attempts made before finalize carry no penalty: a job in
\* the foreground that stays Suspended is given the same number of render
\* attempts after finalize, before it fails with Suspended, whatever number
\* of Suspended attempts it made before (the number a job gets that is
\* finalized right after its first attempt).
C24_SameAttemptsAfterFinalize ==
    [][ (InvokeCallable /\ SuspendedBeforeFinalize /\ job.renderTryCount >= 1) =>
            attemptsUntilFailed(job', now)
                = attemptsUntilFailed(
                      finalize(startRenderingAudio("stays", "", FALSE, StartTime), StartTime),
                      StartTime) ]_vars

\* C24, amended: the attempts counted before finalize are kept: after
\* finalize a job in the foreground that stays Suspended gets the attempts
\* its counter leaves of the three, and at least one.
C24_AttemptsLeftByCounter ==
    [][ (InvokeCallable /\ SuspendedBeforeFinalize) =>
            /\ job'.isFinalized
            /\ job'.renderTryCount = job.renderTryCount
            /\ attemptsUntilFailed(job', now)
                  = Max(1, renderTryMaxCount - job.renderTryCount) ]_vars

\* finalize was requested for a job that had counted more than three
\* Suspended attempts: its next attempt in the foreground is its last
C24_FinalizedWithSpentBudget ==
    /\ job.isFinalized
    /\ job.state = "suspended"
    /\ job.outcome = "pending"
    /\ job.renderTryCount > renderTryMaxCount
    /\ RetryTimers(job) # {}
    /\ attemptsUntilFailed(job, now) = 1

\* the two bags are one with a field absent and one with it falsy, the
\* field being one of those at the given paths
AbsentAndFalsy(paths) ==
    \E f \in FalsyFields :
        /\ f[1] \in paths
        /\ args[1] = sortedInPlace(setPath(BareBag, f[1], Undefined))
        /\ args[2] = sortedInPlace(setPath(BareBag, f[1], f[2]))

\* C25: in the anchor an absent signal is distinguishable from one that is
\* false, zero or empty: for each field the anchor is built from, the bag
\* without the field and the bag with the field at 0, false, the empty
\* string or the empty list get different anchors.
C25_AbsentDiffersFromFalsy ==
    (returned.of = "computeVisitorId" /\ AbsentAndFalsy({ f[1] : f \in FalsyFields })) =>
        canonicalize(returned.values[1].anchor) # canonicalize(returned.values[2].anchor)

\* the fields for which the anchors do differ: hardware concurrency, device
\* memory, the WebGL extension list, the math fingerprint and the DRM flag
C25_DistinguishedFields ==
    (/\ returned.of = "computeVisitorId"
     /\ AbsentAndFalsy({ <<"hardwareConcurrency">>, <<"deviceMemory">>,
                         <<"webgl", "extensions">>, <<"mathFingerprint">>,
                         <<"eme", "widevineSupported">> })) =>
        canonicalize(returned.values[1].anchor) # canonicalize(returned.values[2].anchor)

\* the fields for which they do not: an empty GPU string, an empty raw
\* extension, parameter or shader precision list, a WebGPU flag that is false
C25_ConflatedFields ==
    (/\ returned.of = "computeVisitorId"
     /\ AbsentAndFalsy({ f[1] : f \in FalsyFields }
                         \ { <<"hardwareConcurrency">>, <<"deviceMemory">>,
                             <<"webgl", "extensions">>, <<"mathFingerprint">>,
                             <<"eme", "widevineSupported">> })) =>
        returned.values[1] = returned.values[2]

\* the two lists hold the same elements, each as many times
sameElements(a, b) ==
    /\ Len(a) = Len(b)
    /\ \A i \in 1 .. Len(a) :
          Cardinality({ k \in 1 .. Len(a) : a[k] = a[i] })
              = Cardinality({ k \in 1 .. Len(b) : b[k] = a[i] })

\* the two objects are equal but for the arrays under the given names, which
\* hold the same elements, and the arrays under the last names, which hold
\* the same elements when repetitions are left out
sameButListOrder(a, b, lists, unique) ==
    /\ \A k \in { a.keys[i] : i \in 1 .. Len(a.keys) } \cup { b.keys[i] : i \in 1 .. Len(b.keys) } :
          IF k \in lists /\ get(a, k).type = "array" /\ get(b, k).type = "array"
          THEN sameElements(get(a, k).items, get(b, k).items)
          ELSE IF k \in unique /\ get(a, k).type = "array" /\ get(b, k).type = "array"
          THEN { get(a, k).items[i] : i \in 1 .. Len(get(a, k).items) }
                 = { get(b, k).items[i] : i \in 1 .. Len(get(b, k).items) }
          ELSE get(a, k) = get(b, k)

\* C26: the WebGL digests of the anchor depend on the contents of the lists
\* only: two bags that differ in the order of the supported extension list,
\* the raw extension list, the parameter list or the shader precision list,
\* or in a repeated element of the raw extension list, get the same anchor
\* and the same visitor id.
C26_ListOrderIgnored ==
    (/\ returned.of = "computeVisitorId"
     /\ \A k \in stableNames(args[1]) \cup stableNames(args[2]) :
           k \notin {"webgl", "webgExtensions"} => get(args[1], k) = get(args[2], k)
     /\ sameButListOrder(get(args[1], "webgl"), get(args[2], "webgl"), {"extensions"}, {})
     /\ sameButListOrder(get(args[1], "webgExtensions"), get(args[2], "webgExtensions"),
                         {"parameters", "shaderPrecisions"}, {"extensions"})) =>
        returned.values[1] = returned.values[2]

\* two bags whose supported extension lists are in different orders have
\* got the same visitor id, with the extension digests in the anchor
C26_PermutedListsComputed ==
    /\ returned.of = "computeVisitorId"
    /\ get(get(args[1], "webgl"), "extensions") = JsArray(ListItems)
    /\ get(get(args[2], "webgl"), "extensions")
          = JsArray(<<ListItems[3], ListItems[2], ListItems[1]>>)
    /\ present(get(returned.values[1].anchor, "webgl"), "ext")
    /\ present(get(returned.values[1].anchor, "webgl"), "params")
    /\ returned.values[1] = returned.values[2]

\* the step sets a timeout timer
ArmsTimeout == Cardinality(TimeoutTimers(job')) > Cardinality(TimeoutTimers(job))

\* the step is a render attempt that finds the context running
ObservesRunning == job'.startedRunningAt # job.startedRunningAt

\* a timeout timer is set by the step that makes the job both finalized and
\* observed running, and the two never cease to hold: the timer is set once
C27_TimeoutArmedOnce ==
    /\ ArmsTimeout => ~Armed(job) /\ Armed(job')
    /\ Armed(job) => Armed(job')

\* the context is found running by a job that had not found it running, and
\* from then on no retry is pending, the count of tries stays, and the job
\* does not fail as suspended
C27_RunningObservedOnce ==
    /\ ObservesRunning => job.startedRunningAt = 0 /\ job'.startedRunningAt > 0
    /\ job'.startedRunningAt > 0 =>
          /\ RetryTimers(job') = {}
          /\ job'.outcome # InnerSuspended
    /\ job.startedRunningAt > 0 => job'.renderTryCount = job.renderTryCount

\* a request to finalize a finalized job changes nothing, the promise included
C27_LaterInvocationsChangeNothing ==
    InvokeCallable /\ job.isFinalized => job' = job

\* C27: per audio job at most one timeout timer is ever armed, whatever the
\* order of the finalize request and the Running observation and however often
\* the callable is invoked: Running is observed at most once, no attempt or
\* retry is scheduled after it (the counter stays, no Suspended failure
\* follows), and an invocation of the callable after the first changes no job
\* state and returns the same promise.
C27_OneTimeoutTimer ==
    /\ [](Cardinality(TimeoutTimers(job)) <= 1)
    /\ [][C27_TimeoutArmedOnce]_vars
    /\ [][C27_RunningObservedOnce]_vars
    /\ [][C27_LaterInvocationsChangeNothing]_vars

\* a job that retried, then found the context running, and was finalized
\* afterwards, with its one timeout timer pending
C27_ArmedByFinalizeAfterRetry ==
    /\ job.renderTryCount >= 1
    /\ Armed(job)
    /\ job.startedRunningAt > StartTime
    /\ Cardinality(TimeoutTimers(job)) = 1
    /\ job.outcome = "pending"

\* C28: computeAnchor and computeVisitorId leave the signal bag passed to
\* them unchanged: after the call every field of the input, the element order
\* of the WebGL extension, parameter and shader precision lists included, is
\* as before the call.
C28_BagUnchanged == [][ComputeVisitorIds => args' = args]_vars

\* the audio field of the anchor that get() returned
anchorAudio == get(getResult.anchor, "audio")

\* finalize is never requested: the job is not finalized, no timeout timer is
\* set, and neither the timeout nor the suspended failure occurs
C29_NeverFinalized ==
    /\ ~job.isFinalized
    /\ TimeoutTimers(job) = {}
    /\ job.outcome \notin {InnerTimeout, InnerSuspended}
    /\ job.fingerprint # Fulfilled(Timeout)

\* the anchor has the sentinel the audio source returned, and no audio field
\* when the source returned the callable, whatever the job has come to
C29_AudioOmittedOrSentinel ==
    getResult.called =>
        IF result = Callable THEN ~present(getResult.anchor, "audio")
        ELSE /\ anchorAudio = JsNumber(result.value)
             /\ result.value \in {KnownForSuspending, NotSupported, KnownForAntifingerprinting}

\* a step of the job that leaves the context suspended is a render attempt:
\* it sets one retry timer, renderRetryDelay from now, and the job stays pending
C29_SuspendedRetriesAgain ==
    job' # job /\ job'.created /\ job'.state = "suspended" /\ job'.caught = "" =>
        /\ job'.outcome = "pending"
        /\ Cardinality(RetryTimers(job')) = 1
        /\ \A i \in RetryTimers(job') : job'.timers[i].at = now + renderRetryDelay

\* C29: in the load()/get() flow the library never invokes the audio
\* callable, so finalize is never requested for the job it starts: the anchor
\* that get() returns has its audio field omitted or equal to one of the
\* sentinels -1, -2, -4, never a rendered digest and never -3, and a job whose
\* context stays suspended keeps scheduling a retry 500 ms later and reaches
\* no terminal outcome.
C29_CallableNeverInvoked ==
    /\ []C29_NeverFinalized
    /\ []C29_AudioOmittedOrSentinel
    /\ [](job.created /\ job.state = "suspended" /\ job.caught = "" =>
             job.outcome = "pending" /\ RetryTimers(job) # {})
    /\ [][C29_SuspendedRetriesAgain]_vars

\* get() has returned an anchor without audio field for a job that made
\* renderTryMaxCount counted attempts and has its next retry pending
C29_GotWhileStillRetrying ==
    /\ getResult.called
    /\ result = Callable
    /\ ~present(getResult.anchor, "audio")
    /\ job.renderTryCount >= renderTryMaxCount
    /\ job.outcome = "pending"
    /\ RetryTimers(job) # {}

\* get() has returned an anchor without audio field although the job has
\* rendered and the digest is there
C29_GotAfterRender ==
    /\ getResult.called
    /\ ~present(getResult.anchor, "audio")
    /\ job.outcome = "rendered"
    /\ job.fingerprint.state = "fulfilled"

\* the string has content other than whitespace
hasContent(v) == typeof(v) = "string" /\ trim(v.str) # ""

\* the unmasked string trimmed and in lower case when it has content, else
\* the masked one, else nothing
unmaskedElseMasked(unmasked, masked) ==
    IF hasContent(unmasked) THEN JsString(toLowerCase(trim(unmasked.str)))
    ELSE IF hasContent(masked) THEN JsString(toLowerCase(trim(masked.str)))
    ELSE Undefined

\* the gpu record of the anchor is as the given choice of strings makes it
gpuAsChosen(choice(_, _)) ==
    returned.of = "computeVisitorId" =>
        \A n \in 1 .. 2 :
            LET webgl == get(args[n], "webgl")
                gpu == get(returned.values[n].anchor, "gpu")
                vendor == choice(get(webgl, "vendorUnmasked"), get(webgl, "vendor"))
                renderer == choice(get(webgl, "rendererUnmasked"), get(webgl, "renderer"))
            IN  /\ present(returned.values[n].anchor, "gpu")
                      <=> (vendor # Undefined \/ renderer # Undefined)
                /\ get(gpu, "vendor") = vendor
                /\ get(gpu, "renderer") = renderer

\* C30: the anchor's gpu.vendor (and likewise gpu.renderer) is the trimmed,
\* lowercased unmasked string when the unmasked string has content other than
\* whitespace, and otherwise the trimmed, lowercased masked string; the gpu
\* record is in the anchor exactly when at least one of the four strings has
\* such content.
C30_UnmaskedElseMasked == gpuAsChosen(unmaskedElseMasked)

\* the unmasked string when it is not empty, else the masked one, trimmed and
\* in lower case if that leaves anything
firstNonEmpty(unmasked, masked) ==
    LET chosen == IF typeof(unmasked) = "string" /\ unmasked.str # "" THEN unmasked ELSE masked
    IN  IF hasContent(chosen) THEN JsString(toLowerCase(trim(chosen.str))) ELSE Undefined

\* what holds instead: a blank unmasked string that is not empty hides the
\* masked one
C30_FirstNonEmptyChosen == gpuAsChosen(firstNonEmpty)

====
